---- MODULE Spec2Model ----
(***************************************************************************)
(* Model of the contact-information moderation engine of                   *)
(* backend/pii/pii.py: TextNormalizer, PatternDetector, ContextAnalyzer,   *)
(* RateLimiter and ContactModerationSystem.                                *)
(*                                                                         *)
(* A message is a record.  Its characters (text) range over a small        *)
(* alphabet and feed the normalizer.  The outcome of every compiled        *)
(* pattern of the detector on the message (found), of the phrase tables    *)
(* (contact_intent, sharing_phrase, exclude_phrase) and of the             *)
(* safe-context tables (safe_context, ssn_context, date_context) are       *)
(* inputs of their own: the control flow that turns these outcomes into    *)
(* the violation list, the severity and the decision is translated         *)
(* statement by statement.                                                 *)
(***************************************************************************)
EXTENDS Integers, Sequences, FiniteSets, TLC

VARIABLES
    message,          \* the message handed to moderate_message
    user_id,          \* the user_id handed to the last call (None when absent)
    results,          \* the ModerationResults returned for `message`, in the order they came
    sensitivity,      \* self.sensitivity of the engine that owns the rate limiter
    user_violations,  \* RateLimiter.user_violations: user_id -> list of timestamps
    now,              \* datetime.now(), in minutes
    added,            \* user_id -> the times at which add_violation(user_id) was called
    reply,            \* the last call made and what it returned
    pc,               \* position of each concurrent caller inside its operation
    local             \* locals of each concurrent caller

vars == <<message, user_id, results, sensitivity, user_violations, added, now, reply, pc, local>>

None == "None"

-----------------------------------------------------------------------------
(* Bounds of the model *)

MaxMatches == 3      \* patterns that match in one message
MaxTicks == 2        \* clock steps
MaxRecorded == 4     \* calls of add_violation recorded per user
TickMinutes == 30    \* minutes per clock step
MaxChars == 1        \* characters of a message
MaxFound == 2        \* patterns that match in a message handed to the detector
MaxPhones == 3       \* phone patterns that match in a message handed to the detector
MaxWordChars == 3    \* characters of a text that is normalized twice
MaxCalls == 2        \* calls each concurrent caller makes

-----------------------------------------------------------------------------
(* Program constants *)

window_minutes == 60
max_violations == 3
MAX_MESSAGE_LENGTH == 10000

Sensitivities == <<"low", "medium", "high">>
SensitivitySet == {Sensitivities[i] : i \in 1..Len(Sensitivities)}

SEVERITY_WEIGHTS ==
    [phone_number |-> 25, email_address |-> 20, upi_id |-> 25, url |-> 15,
     social_media_handle |-> 15, payment_handle |-> 20, whatsapp_link |-> 20,
     telegram_link |-> 20, snapchat_link |-> 20, wechat_id |-> 20, line_id |-> 20,
     meeting_link |-> 10, meeting_code |-> 15, calendar_link |-> 10,
     letter_spelling |-> 18]

DEFAULT_WEIGHT == 10
INTENT_BONUS == 15
MULTIPLE_BONUS == 10
MAX_SCORE == 100
HIGH_CONFIDENCE_SCORE == 50
LOW_BLOCK_SCORE == 70

-----------------------------------------------------------------------------
(* TextNormalizer.  Characters are one-character strings; a character       *)
(* outside printable ASCII is named by its code point ("U+200B").           *)

ZERO_WIDTH_CHARS ==
    {
     "U+200B", "U+200C", "U+200D", "U+200E", "U+200F", "U+2060", "U+FEFF"
    }

NFKC_MAP ==
    <<
     <<<<"U+FF20">>, <<"@">>>>, <<<<"U+FF0E">>, <<".">>>>, <<<<"U+FF10">>, <<"0">>>>,
     <<<<"U+FF11">>, <<"1">>>>, <<<<"U+FF12">>, <<"2">>>>, <<<<"U+FF13">>, <<"3">>>>,
     <<<<"U+FF14">>, <<"4">>>>, <<<<"U+FF15">>, <<"5">>>>, <<<<"U+FF16">>, <<"6">>>>,
     <<<<"U+FF17">>, <<"7">>>>, <<<<"U+FF18">>, <<"8">>>>, <<<<"U+FF19">>, <<"9">>>>
    >>

EMOJI_DIGITS ==
    <<
     <<<<"0", "U+FE0F", "U+20E3">>, <<"0">>>>, <<<<"1", "U+FE0F", "U+20E3">>, <<"1">>>>,
     <<<<"2", "U+FE0F", "U+20E3">>, <<"2">>>>, <<<<"3", "U+FE0F", "U+20E3">>, <<"3">>>>,
     <<<<"4", "U+FE0F", "U+20E3">>, <<"4">>>>, <<<<"5", "U+FE0F", "U+20E3">>, <<"5">>>>,
     <<<<"6", "U+FE0F", "U+20E3">>, <<"6">>>>, <<<<"7", "U+FE0F", "U+20E3">>, <<"7">>>>,
     <<<<"8", "U+FE0F", "U+20E3">>, <<"8">>>>, <<<<"9", "U+FE0F", "U+20E3">>, <<"9">>>>
    >>

UPPERCASE ==
    <<
     "A", "B", "C", "D", "E", "F", "G", "H", "I", "J", "K", "L", "M", "N", "O", "P", "Q",
     "R", "S", "T", "U", "V", "W", "X", "Y", "Z"
    >>

LOWERCASE ==
    <<
     "a", "b", "c", "d", "e", "f", "g", "h", "i", "j", "k", "l", "m", "n", "o", "p", "q",
     "r", "s", "t", "u", "v", "w", "x", "y", "z"
    >>

chinese_digits ==
    <<
     <<<<"U+96F6">>, <<"0">>>>, <<<<"U+4E00">>, <<"1">>>>, <<<<"U+4E8C">>, <<"2">>>>,
     <<<<"U+4E09">>, <<"3">>>>, <<<<"U+56DB">>, <<"4">>>>, <<<<"U+4E94">>, <<"5">>>>,
     <<<<"U+516D">>, <<"6">>>>, <<<<"U+4E03">>, <<"7">>>>, <<<<"U+516B">>, <<"8">>>>,
     <<<<"U+4E5D">>, <<"9">>>>, <<<<"U+58F9">>, <<"1">>>>, <<<<"U+8D30">>, <<"2">>>>,
     <<<<"U+53C1">>, <<"3">>>>, <<<<"U+8086">>, <<"4">>>>, <<<<"U+4F0D">>, <<"5">>>>,
     <<<<"U+9646">>, <<"6">>>>, <<<<"U+67D2">>, <<"7">>>>, <<<<"U+634C">>, <<"8">>>>,
     <<<<"U+7396">>, <<"9">>>>
    >>

arabic_indic_digits ==
    <<
     <<<<"U+0660">>, <<"0">>>>, <<<<"U+0661">>, <<"1">>>>, <<<<"U+0662">>, <<"2">>>>,
     <<<<"U+0663">>, <<"3">>>>, <<<<"U+0664">>, <<"4">>>>, <<<<"U+0665">>, <<"5">>>>,
     <<<<"U+0666">>, <<"6">>>>, <<<<"U+0667">>, <<"7">>>>, <<<<"U+0668">>, <<"8">>>>,
     <<<<"U+0669">>, <<"9">>>>
    >>

WORD_NUMBERS ==
    <<
     <<<<"z", "e", "r", "o">>, <<"0">>>>, <<<<"o", "n", "e">>, <<"1">>>>,
     <<<<"t", "w", "o">>, <<"2">>>>, <<<<"t", "h", "r", "e", "e">>, <<"3">>>>,
     <<<<"f", "o", "u", "r">>, <<"4">>>>, <<<<"f", "i", "v", "e">>, <<"5">>>>,
     <<<<"s", "i", "x">>, <<"6">>>>, <<<<"s", "e", "v", "e", "n">>, <<"7">>>>,
     <<<<"e", "i", "g", "h", "t">>, <<"8">>>>, <<<<"n", "i", "n", "e">>, <<"9">>>>,
     <<<<"f", "v", "i", "e">>, <<"5">>>>,
     <<<<"n", "i", "n", "e", "t", "y", "e">>, <<"9">>>>,
     <<<<"e", "g", "h", "t">>, <<"8">>>>, <<<<"n", "i", "n", "e", "g", "h">>, <<"9">>>>,
     <<<<"s", "e", "v", "n">>, <<"7">>>>, <<<<"t", "h", "r", "3", "3">>, <<"3">>>>,
     <<<<"f", "0", "u", "r">>, <<"4">>>>, <<<<"i", "9", "h", "t">>, <<"8">>>>,
     <<<<"s", "3", "v", "3", "n">>, <<"7">>>>, <<<<"n", "1", "n", "3">>, <<"9">>>>,
     <<<<"3", "i", "9", "h", "t">>, <<"8">>>>, <<<<"o", "n", "e", "e">>, <<"1">>>>,
     <<<<"o", "e", "n">>, <<"1">>>>, <<<<"t", "o">>, <<"2">>>>,
     <<<<"t", "h", "r", "r", "e">>, <<"3">>>>, <<<<"f", "o", "u", "e">>, <<"4">>>>,
     <<<<"f", "i", "e", "v">>, <<"5">>>>, <<<<"s", "x", "i">>, <<"6">>>>,
     <<<<"s", "e", "v", "e", "b">>, <<"7">>>>, <<<<"e", "i", "g", "j", "t">>, <<"8">>>>,
     <<<<"0", "n", "e">>, <<"1">>>>, <<<<"t", "w", "0">>, <<"2">>>>,
     <<<<"7", "h", "r", "3", "3">>, <<"3">>>>, <<<<"f", "1", "v", "e">>, <<"5">>>>,
     <<<<"s", "1", "x">>, <<"6">>>>, <<<<"5", "3", "v", "e", "n">>, <<"7">>>>,
     <<<<"3", "1", "g", "h", "t">>, <<"8">>>>, <<<<"0", "n", "3">>, <<"1">>>>,
     <<<<"t", "\\", "/", "\\", "/", "0">>, <<"2">>>>,
     <<<<"7", "h", "r", "e", "e">>, <<"3">>>>, <<<<"f", "1", "v", "3">>, <<"5">>>>,
     <<<<"s", "1", "x", "6">>, <<"6">>>>, <<<<"e", "1", "g", "h", "t">>, <<"8">>>>,
     <<<<"n", "1", "n", "e">>, <<"9">>>>,
     <<<<"U+043D", "U+043E", "U+043B", "U+044C">>, <<"0">>>>,
     <<<<"U+043D", "U+0443", "U+043B", "U+044C">>, <<"0">>>>,
     <<<<"U+043E", "U+0434", "U+0438", "U+043D">>, <<"1">>>>,
     <<<<"U+0434", "U+0432", "U+0430">>, <<"2">>>>,
     <<<<"U+0442", "U+0440", "U+0438">>, <<"3">>>>,
     <<<<"U+0447", "U+0435", "U+0442", "U+044B", "U+0440", "U+0435">>, <<"4">>>>,
     <<<<"U+043F", "U+044F", "U+0442", "U+044C">>, <<"5">>>>,
     <<<<"U+0448", "U+0435", "U+0441", "U+0442", "U+044C">>, <<"6">>>>,
     <<<<"U+0441", "U+0435", "U+043C", "U+044C">>, <<"7">>>>,
     <<<<"U+0432", "U+043E", "U+0441", "U+0435", "U+043C", "U+044C">>, <<"8">>>>,
     <<<<"U+0434", "U+0435", "U+0432", "U+044F", "U+0442", "U+044C">>, <<"9">>>>,
     <<<<"c", "e", "r", "o">>, <<"0">>>>, <<<<"u", "n", "o">>, <<"1">>>>,
     <<<<"d", "o", "s">>, <<"2">>>>, <<<<"t", "r", "e", "s">>, <<"3">>>>,
     <<<<"c", "u", "a", "t", "r", "o">>, <<"4">>>>,
     <<<<"c", "i", "n", "c", "o">>, <<"5">>>>, <<<<"s", "e", "i", "s">>, <<"6">>>>,
     <<<<"s", "i", "e", "t", "e">>, <<"7">>>>, <<<<"o", "c", "h", "o">>, <<"8">>>>,
     <<<<"n", "u", "e", "v", "e">>, <<"9">>>>, <<<<"U+96F6">>, <<"0">>>>,
     <<<<"U+4E00">>, <<"1">>>>, <<<<"U+4E8C">>, <<"2">>>>, <<<<"U+4E09">>, <<"3">>>>,
     <<<<"U+56DB">>, <<"4">>>>, <<<<"U+4E94">>, <<"5">>>>, <<<<"U+516D">>, <<"6">>>>,
     <<<<"U+4E03">>, <<"7">>>>, <<<<"U+516B">>, <<"8">>>>, <<<<"U+4E5D">>, <<"9">>>>,
     <<<<"U+58F9">>, <<"1">>>>, <<<<"U+8D30">>, <<"2">>>>, <<<<"U+53C1">>, <<"3">>>>,
     <<<<"U+8086">>, <<"4">>>>, <<<<"U+4F0D">>, <<"5">>>>, <<<<"U+9646">>, <<"6">>>>,
     <<<<"U+67D2">>, <<"7">>>>, <<<<"U+634C">>, <<"8">>>>, <<<<"U+7396">>, <<"9">>>>,
     <<<<"t", "e", "n">>, <<"1">>>>, <<<<"e", "l", "e", "v", "e", "n">>, <<"1", "1">>>>,
     <<<<"t", "w", "e", "l", "v", "e">>, <<"1", "2">>>>,
     <<<<"t", "h", "i", "r", "t", "e", "e", "n">>, <<"1", "3">>>>,
     <<<<"f", "o", "u", "r", "t", "e", "e", "n">>, <<"1", "4">>>>,
     <<<<"f", "i", "f", "t", "e", "e", "n">>, <<"1", "5">>>>,
     <<<<"s", "i", "x", "t", "e", "e", "n">>, <<"1", "6">>>>,
     <<<<"s", "e", "v", "e", "n", "t", "e", "e", "n">>, <<"1", "7">>>>,
     <<<<"e", "i", "g", "h", "t", "e", "e", "n">>, <<"1", "8">>>>,
     <<<<"n", "i", "n", "e", "t", "e", "e", "n">>, <<"1", "9">>>>,
     <<<<"t", "w", "e", "n", "t", "y">>, <<"2">>>>,
     <<<<"t", "h", "i", "r", "t", "y">>, <<"3">>>>,
     <<<<"f", "o", "r", "t", "y">>, <<"4">>>>, <<<<"f", "i", "f", "t", "y">>, <<"5">>>>,
     <<<<"s", "i", "x", "t", "y">>, <<"6">>>>,
     <<<<"s", "e", "v", "e", "n", "t", "y">>, <<"7">>>>,
     <<<<"e", "i", "g", "h", "t", "y">>, <<"8">>>>,
     <<<<"n", "i", "n", "e", "t", "y">>, <<"9">>>>, <<<<"z", "e", "r", "0">>, <<"0">>>>,
     <<<<"z", "3", "r", "0">>, <<"0">>>>, <<<<"s", "h", "u", "n", "y", "a">>, <<"0">>>>,
     <<<<"e", "k">>, <<"1">>>>, <<<<"d", "o">>, <<"2">>>>,
     <<<<"t", "e", "e", "n">>, <<"3">>>>, <<<<"c", "h", "a", "r">>, <<"4">>>>,
     <<<<"p", "a", "a", "n", "c", "h">>, <<"5">>>>,
     <<<<"c", "h", "h", "a", "h">>, <<"6">>>>, <<<<"s", "a", "a", "t">>, <<"7">>>>,
     <<<<"a", "a", "t", "h">>, <<"8">>>>, <<<<"n", "a", "u">>, <<"9">>>>,
     <<<<"u", "m">>, <<"1">>>>, <<<<"d", "o", "i", "s">>, <<"2">>>>,
     <<<<"t", "r", "U+00EA", "s">>, <<"3">>>>,
     <<<<"q", "u", "a", "t", "r", "o">>, <<"4">>>>, <<<<"s", "e", "t", "e">>, <<"7">>>>,
     <<<<"o", "i", "t", "o">>, <<"8">>>>, <<<<"n", "o", "v", "e">>, <<"9">>>>,
     <<<<"n", "u", "l", "l">>, <<"0">>>>, <<<<"e", "i", "n", "s">>, <<"1">>>>,
     <<<<"z", "w", "e", "i">>, <<"2">>>>, <<<<"d", "r", "e", "i">>, <<"3">>>>,
     <<<<"v", "i", "e", "r">>, <<"4">>>>, <<<<"f", "U+00FC", "n", "f">>, <<"5">>>>,
     <<<<"s", "e", "c", "h", "s">>, <<"6">>>>,
     <<<<"s", "i", "e", "b", "e", "n">>, <<"7">>>>, <<<<"a", "c", "h", "t">>, <<"8">>>>,
     <<<<"n", "e", "u", "n">>, <<"9">>>>
    >>

PHONETIC_NUMBERS ==
    <<
     <<<<"a", "t", "e">>, <<"8">>>>, <<<<"w", "o", "n">>, <<"1">>>>,
     <<<<"t", "o", "o">>, <<"2">>>>, <<<<"t", "o">>, <<"2">>>>,
     <<<<"f", "o", "r">>, <<"4">>>>, <<<<"o", "h">>, <<"0">>>>,
     <<<<"o", "w", "e">>, <<"0">>>>
    >>

cyrillic_greek_confusables ==
    <<
     <<<<"U+043E">>, <<"o">>>>, <<<<"U+0430">>, <<"a">>>>, <<<<"U+0435">>, <<"e">>>>,
     <<<<"U+0441">>, <<"c">>>>, <<<<"U+0434">>, <<"d">>>>, <<<<"U+0438">>, <<"i">>>>,
     <<<<"U+043D">>, <<"n">>>>, <<<<"U+0432">>, <<"v">>>>, <<<<"U+0442">>, <<"t">>>>,
     <<<<"U+0440">>, <<"r">>>>, <<<<"U+0447">>, <<"c", "h">>>>,
     <<<<"U+0448">>, <<"s", "h">>>>, <<<<"U+043C">>, <<"m">>>>, <<<<"U+044C">>, <<>>>>,
     <<<<"U+03BF">>, <<"o">>>>, <<<<"U+03B1">>, <<"a">>>>
    >>

OBFUSCATION_CHARS ==
    {
     "U+0009", "U+000A", "U+000B", "U+000C", "U+000D", "U+001C", "U+001D", "U+001E",
     "U+001F", " ", "!", "\"", "#", "$", "%", "&", "'", "(", ")", "*", "+", ",", "-",
     ".", "/", ":", ";", "<", "=", ">", "@", "[", "\\", "]", "^", "_", "U+0060", "{", "|",
     "}", "~", "U+0085", "U+00A0", "U+00A1", "U+00A4", "U+00A7", "U+00B0", "U+00B6",
     "U+00B7", "U+00BF", "U+00D7", "U+1680", "U+2000", "U+2001", "U+2002", "U+2003",
     "U+2004", "U+2005", "U+2006", "U+2007", "U+2008", "U+2009", "U+200A", "U+2013",
     "U+2014", "U+2020", "U+2021", "U+2022", "U+2026", "U+2028", "U+2029", "U+202F",
     "U+203B", "U+205F", "U+3000", "U+3008", "U+3009", "U+300A", "U+300B", "U+300C",
     "U+300D", "U+300E", "U+300F", "U+3010", "U+3011", "U+FE58"
    }

WORD_CHARS ==
    {
     "0", "1", "2", "3", "4", "5", "6", "7", "8", "9", "A", "B", "C", "D", "E", "F", "G",
     "H", "I", "J", "K", "L", "M", "N", "O", "P", "Q", "R", "S", "T", "U", "V", "W", "X",
     "Y", "Z", "_", "a", "b", "c", "d", "e", "f", "g", "h", "i", "j", "k", "l", "m", "n",
     "o", "p", "q", "r", "s", "t", "u", "v", "w", "x", "y", "z", "U+00EA", "U+00FC",
     "U+03B1", "U+03BF", "U+0430", "U+0432", "U+0434", "U+0435", "U+0438", "U+043B",
     "U+043C", "U+043D", "U+043E", "U+043F", "U+0440", "U+0441", "U+0442", "U+0443",
     "U+0447", "U+0448", "U+044B", "U+044C", "U+044F", "U+0660", "U+0661", "U+0662",
     "U+0663", "U+0664", "U+0665", "U+0666", "U+0667", "U+0668", "U+0669", "U+4E00",
     "U+4E03", "U+4E09", "U+4E5D", "U+4E8C", "U+4E94", "U+4F0D", "U+516B", "U+516D",
     "U+53C1", "U+56DB", "U+58F9", "U+634C", "U+67D2", "U+7396", "U+8086", "U+8D30",
     "U+9646", "U+96F6", "U+FF10", "U+FF11", "U+FF12", "U+FF13", "U+FF14", "U+FF15",
     "U+FF16", "U+FF17", "U+FF18", "U+FF19"
    }

\* the word characters of the re module, over the characters the tables use
IsWordChar(c) == c \in WORD_CHARS

\* a word boundary at position i of s: between s[i-1] and s[i]
WordBoundary(s, i) ==
    LET before == i > 1 /\ IsWordChar(s[i - 1])
        after == i <= Len(s) /\ IsWordChar(s[i])
    IN  before # after

MatchesAt(s, i, old) ==
    /\ i + Len(old) - 1 <= Len(s)
    /\ \A k \in 1..Len(old) : s[i + k - 1] = old[k]

\* str.replace(old, new) from position i on
RECURSIVE ReplaceFrom(_, _, _, _)
ReplaceFrom(s, i, old, new) ==
    IF \E j \in i..Len(s) : MatchesAt(s, j, old)
    THEN LET at == CHOOSE j \in i..Len(s) :
                       /\ MatchesAt(s, j, old)
                       /\ \A k \in i..(j - 1) : ~MatchesAt(s, k, old)
         IN  SubSeq(s, i, at - 1) \o new \o ReplaceFrom(s, at + Len(old), old, new)
    ELSE SubSeq(s, i, Len(s))

StrReplace(s, old, new) == ReplaceFrom(s, 1, old, new)

\* for old, new in table.items(): s = s.replace(old, new), for the entries lo..hi
RECURSIVE ReplaceEach(_, _, _, _)
ReplaceEach(s, table, lo, hi) ==
    IF lo > hi THEN s
    ELSE IF lo = hi THEN StrReplace(s, table[lo][1], table[lo][2])
    ELSE LET mid == (lo + hi) \div 2
             left == ReplaceEach(s, table, lo, mid)
         IN  IF left = <<>> THEN <<>> ELSE ReplaceEach(left, table, mid + 1, hi)

\* \bword\b matches at position i of s
WordAt(s, i, word) ==
    /\ MatchesAt(s, i, word)
    /\ WordBoundary(s, i)
    /\ WordBoundary(s, i + Len(word))

\* re.sub of the word between two word boundaries, from position i on
RECURSIVE SubWordFrom(_, _, _, _)
SubWordFrom(s, i, word, digit) ==
    IF \E j \in i..Len(s) : WordAt(s, j, word)
    THEN LET at == CHOOSE j \in i..Len(s) :
                       /\ WordAt(s, j, word)
                       /\ \A k \in i..(j - 1) : ~WordAt(s, k, word)
         IN  SubSeq(s, i, at - 1) \o digit \o SubWordFrom(s, at + Len(word), word, digit)
    ELSE SubSeq(s, i, Len(s))

SubWord(s, word, digit) == SubWordFrom(s, 1, word, digit)

\* for word, digit in table.items(): s = re.sub(word between boundaries, digit, s),
\* for the entries lo..hi
RECURSIVE SubWords(_, _, _, _)
SubWords(s, table, lo, hi) ==
    IF lo > hi THEN s
    ELSE IF lo = hi THEN SubWord(s, table[lo][1], table[lo][2])
    ELSE LET mid == (lo + hi) \div 2
             left == SubWords(s, table, lo, mid)
         IN  IF left = <<>> THEN <<>> ELSE SubWords(left, table, mid + 1, hi)

RemoveChars(s, chars) == SelectSeq(s, LAMBDA c : c \notin chars)

\* str.lower()
LowerChar(c) ==
    IF \E k \in 1..Len(UPPERCASE) : UPPERCASE[k] = c
    THEN LOWERCASE[CHOOSE k \in 1..Len(UPPERCASE) : UPPERCASE[k] = c]
    ELSE c

Lower(s) == [k \in 1..Len(s) |-> LowerChar(s[k])]

\* TextNormalizer.normalize
normalize(text) ==
    IF text = <<>> THEN <<>>
    ELSE
        LET s1 == RemoveChars(text, ZERO_WIDTH_CHARS)
            s2 == IF s1 = <<>> THEN <<>> ELSE ReplaceEach(s1, NFKC_MAP, 1, Len(NFKC_MAP))
            s3 == IF s2 = <<>> THEN <<>>
                  ELSE ReplaceEach(s2, EMOJI_DIGITS, 1, Len(EMOJI_DIGITS))
            s4 == IF s3 = <<>> THEN <<>> ELSE Lower(s3)
            s5 == IF s4 = <<>> THEN <<>>
                  ELSE ReplaceEach(s4, chinese_digits, 1, Len(chinese_digits))
            s6 == IF s5 = <<>> THEN <<>>
                  ELSE ReplaceEach(s5, arabic_indic_digits, 1, Len(arabic_indic_digits))
            s7 == IF s6 = <<>> THEN <<>>
                  ELSE SubWords(s6, WORD_NUMBERS, 1, Len(WORD_NUMBERS))
            s8 == IF s7 = <<>> THEN <<>>
                  ELSE SubWords(s7, PHONETIC_NUMBERS, 1, Len(PHONETIC_NUMBERS))
            s9 == IF s8 = <<>> THEN <<>>
                  ELSE ReplaceEach(s8, cyrillic_greek_confusables, 1,
                                   Len(cyrillic_greek_confusables))
        IN  IF s9 = <<>> THEN <<>> ELSE RemoveChars(s9, OBFUSCATION_CHARS)

-----------------------------------------------------------------------------
(* PatternDetector.  Patterns are named as the attributes and locals of     *)
(* the source that hold them.                                               *)

\* the patterns detect_all_patterns searches, in the order it searches them
Patterns ==
    <<"phone_pattern", "phone_context_pattern", "mixed_pattern",
      "obfuscated_number_pattern", "confusable_pattern", "leetspeak_number_pattern",
      "concat_numbers_pattern", "long_spelled_pattern", "email_pattern",
      "email_normalized_pattern", "email_unicode_pattern", "placeholder_email_pattern",
      "url_pattern", "obfuscated_url_pattern", "social_handle_pattern",
      "discord_pattern", "upi_pattern", "upi_context_pattern", "payment_pattern",
      "whatsapp_pattern", "telegram_pattern", "meeting_pattern", "calendar_pattern",
      "snapchat_pattern", "wechat_pattern", "line_pattern", "letter_spelling_pattern",
      "spelled_email_pattern", "meet_code_pattern", "extension_pattern", "ssn_pattern",
      "leet_mixed", "zer0_pattern">>

PatternSet == {Patterns[i] : i \in 1..Len(Patterns)}

\* the patterns whose match is handed to _is_false_positive_number
NumberPatterns ==
    {"phone_pattern", "mixed_pattern", "obfuscated_number_pattern", "confusable_pattern",
     "leetspeak_number_pattern", "concat_numbers_pattern", "long_spelled_pattern",
     "leet_mixed", "zer0_pattern"}

\* how many digit characters a match of the pattern can hold (for zer0_pattern:
\* the 10 characters of context on either side of the match)
MatchDigits(p) ==
    CASE p = "phone_pattern" -> {7, 10}                \* \d{5,15}
      [] p = "phone_context_pattern" -> {7}            \* a keyword and \d{5,15}
      [] p = "extension_pattern" -> {3}                \* ext ... \d{2,5}
      [] p = "mixed_pattern" -> {4, 8}                 \* digits and number words
      [] p = "obfuscated_number_pattern" -> {7}        \* seven digits among letters
      [] p = "leetspeak_number_pattern" -> {3, 6}      \* three or more tokens with a digit
      [] p = "leet_mixed" -> {3}                       \* \d[a-z]+\d[a-z]+\d
      [] p = "zer0_pattern" -> {2, 3, 6}
      [] OTHER -> {0}

\* what the phrase and keyword tables can find in the original text
ContextFacts ==
    {"contact_intent",    \* a phrase of ContextAnalyzer.INTENT_PHRASES
     "sharing_phrase",    \* a phrase of contact_intent_patterns
     "exclude_phrase",    \* a phrase of exclude_patterns
     "safe_context",      \* a keyword or format of _is_false_positive_number
     "ssn_context",       \* ssn | social security
     "date_context"}      \* date | dob | birth | born | appointment | on | at

Found(m, p) == p \in DOMAIN m.found

\* the text of a match, named by the pattern that matched it
Group(m, p) == p

DigitCount(m, p) == m.found[p]

\* PatternDetector._has_contact_sharing_intent
_has_contact_sharing_intent(m) ==
    IF "exclude_phrase" \in m.context THEN FALSE
    ELSE "sharing_phrase" \in m.context

\* PatternDetector._is_false_positive_number, for the match of pattern p
_is_false_positive_number(m, p) ==
    IF "safe_context" \in m.context THEN TRUE
    ELSE IF DigitCount(m, p) < 5 THEN TRUE
    ELSE IF DigitCount(m, p) > 15 THEN TRUE
    ELSE FALSE

Violation(kind, text) == <<kind, text>>

\* the violation of a secondary number pattern: reported with contact intent or when
\* the match is no false positive
NumberViolation(m, p) ==
    IF _has_contact_sharing_intent(m) \/ ~_is_false_positive_number(m, p)
    THEN <<Violation("phone_number", Group(m, p))>>
    ELSE <<>>

\* the result of `a.search(text) or a.search(normalized_text)` and of the chains of
\* `if not match: match = ...`: the first pattern of the list that matches
FirstFound(m, ps) ==
    IF \E i \in 1..Len(ps) : Found(m, ps[i])
    THEN ps[CHOOSE i \in 1..Len(ps) :
                /\ Found(m, ps[i])
                /\ \A j \in 1..(i - 1) : ~Found(m, ps[j])]
    ELSE None

Simple(m, p, kind) ==
    IF Found(m, p) THEN <<Violation(kind, Group(m, p))>> ELSE <<>>

\* the short-circuit of the secondary phone detectors taken from a phone_number the
\* primary detector reported
phone_match_reported(m) ==
    /\ Found(m, "phone_pattern")
    /\ \/ _has_contact_sharing_intent(m) /\ DigitCount(m, "phone_pattern") >= 10
       \/ ~_is_false_positive_number(m, "phone_pattern")

\* phone_match = self.phone_pattern.search(normalized_text), read as a truth value
phone_match(m) == Found(m, "phone_pattern")

\* PatternDetector.detect_all_patterns
detect_all_patterns(m) ==
    LET primary ==
            IF ~phone_match(m) THEN <<>>
            ELSE IF _has_contact_sharing_intent(m) /\ DigitCount(m, "phone_pattern") >= 10
                 THEN <<Violation("phone_number", Group(m, "phone_pattern"))>>
            ELSE IF ~_is_false_positive_number(m, "phone_pattern")
                 THEN <<Violation("phone_number", Group(m, "phone_pattern"))>>
            ELSE <<>>
        context ==
            IF Found(m, "phone_context_pattern") /\ ~phone_match(m)
            THEN <<Violation("phone_number", Group(m, "phone_context_pattern"))>>
            ELSE <<>>
        Secondary(p) ==
            IF ~phone_match(m) /\ Found(m, p) THEN NumberViolation(m, p) ELSE <<>>
        email_match ==
            FirstFound(m, <<"email_pattern", "email_normalized_pattern",
                            "email_unicode_pattern", "placeholder_email_pattern">>)
        email ==
            IF email_match # None
            THEN <<Violation("email_address", Group(m, email_match))>> ELSE <<>>
        url_match == Found(m, "url_pattern")
        obf_url ==
            IF Found(m, "obfuscated_url_pattern") /\ ~url_match
            THEN <<Violation("url", Group(m, "obfuscated_url_pattern"))>> ELSE <<>>
        upi_match == Found(m, "upi_pattern")
        upi_context ==
            IF Found(m, "upi_context_pattern") /\ ~upi_match
            THEN <<Violation("upi_id", Group(m, "upi_context_pattern"))>> ELSE <<>>
        ssn ==
            IF ~Found(m, "ssn_pattern") THEN <<>>
            ELSE IF "ssn_context" \in m.context
                 THEN <<Violation("ssn", Group(m, "ssn_pattern"))>>
            ELSE IF "date_context" \notin m.context
                 THEN <<Violation("ssn", Group(m, "ssn_pattern"))>>
            ELSE <<>>
        zer0 ==
            IF ~phone_match(m) /\ Found(m, "zer0_pattern")
               /\ DigitCount(m, "zer0_pattern") >= 3
            THEN NumberViolation(m, "zer0_pattern") ELSE <<>>
    IN  primary
        \o context
        \o Secondary("mixed_pattern")
        \o Secondary("obfuscated_number_pattern")
        \o Secondary("confusable_pattern")
        \o Secondary("leetspeak_number_pattern")
        \o Secondary("concat_numbers_pattern")
        \o Secondary("long_spelled_pattern")
        \o email
        \o Simple(m, "url_pattern", "url")
        \o obf_url
        \o Simple(m, "social_handle_pattern", "social_media_handle")
        \o Simple(m, "discord_pattern", "discord_tag")
        \o Simple(m, "upi_pattern", "upi_id")
        \o upi_context
        \o Simple(m, "payment_pattern", "payment_handle")
        \o Simple(m, "whatsapp_pattern", "whatsapp_link")
        \o Simple(m, "telegram_pattern", "telegram_link")
        \o Simple(m, "meeting_pattern", "meeting_link")
        \o Simple(m, "calendar_pattern", "calendar_link")
        \o Simple(m, "snapchat_pattern", "snapchat_link")
        \o Simple(m, "wechat_pattern", "wechat_id")
        \o Simple(m, "line_pattern", "line_id")
        \o Simple(m, "letter_spelling_pattern", "letter_spelling")
        \o Simple(m, "spelled_email_pattern", "email_address")
        \o Simple(m, "meet_code_pattern", "meeting_code")
        \o Simple(m, "extension_pattern", "phone_number")
        \o ssn
        \o Secondary("leet_mixed")
        \o zer0

\* has_contact_intent answering as the detector's own predicate does: no intent in a
\* text with an exclusion phrase
has_contact_intent_unless_excluded(m) ==
    IF m.text = <<>> THEN FALSE
    ELSE IF "exclude_phrase" \in m.context THEN FALSE
    ELSE "contact_intent" \in m.context

\* ContextAnalyzer.has_contact_intent
has_contact_intent(m) ==
    IF m.text = <<>> THEN FALSE
    ELSE "contact_intent" \in m.context

-----------------------------------------------------------------------------
(* RateLimiter.  user_violations is a defaultdict(list): reading a key that *)
(* is absent yields the empty list, and the cleanup stores the key.         *)

Violations(uv, u) == IF u \in DOMAIN uv THEN uv[u] ELSE <<>>

Store(uv, u, list) == (u :> list) @@ uv

\* a cleanup that keeps every timestamp
_cleanup_nothing(uv, u, t) == Store(uv, u, Violations(uv, u))

\* RateLimiter._cleanup_old_violations
_cleanup_old_violations(uv, u, t) ==
    LET cutoff == t - window_minutes
    IN  Store(uv, u, SelectSeq(Violations(uv, u), LAMBDA v : v > cutoff))

\* add_violation keeping only the newest timestamp
add_violation_newest(uv, u, t) == Store(uv, u, <<t>>)

\* RateLimiter.add_violation
add_violation(uv, u, t) ==
    _cleanup_old_violations(Store(uv, u, Append(Violations(uv, u), t)), u, t)

\* RateLimiter.is_rate_limited: the value returned and the dictionary left behind
is_rate_limited(uv, u, t) ==
    LET cleaned == _cleanup_old_violations(uv, u, t)
    IN  [value |-> Len(cleaned[u]) >= max_violations, user_violations |-> cleaned]

\* RateLimiter.get_violation_count: the value returned and the dictionary left behind
get_violation_count(uv, u, t) ==
    LET cleaned == _cleanup_old_violations(uv, u, t)
    IN  [value |-> Len(cleaned[u]), user_violations |-> cleaned]

-----------------------------------------------------------------------------
(* ContactModerationSystem *)

\* SEVERITY_WEIGHTS.get(violation_type, 0): a kind without a weight adds nothing
Weight_unlisted_zero(kind) ==
    IF kind \in DOMAIN SEVERITY_WEIGHTS THEN SEVERITY_WEIGHTS[kind] ELSE 0

Weight(kind) ==
    IF kind \in DOMAIN SEVERITY_WEIGHTS THEN SEVERITY_WEIGHTS[kind] ELSE DEFAULT_WEIGHT

RECURSIVE SumWeights(_)
SumWeights(violations) ==
    IF violations = <<>> THEN 0
    ELSE Weight(violations[1][1]) + SumWeights(Tail(violations))

Min(a, b) == IF a <= b THEN a ELSE b

\* _calculate_severity returning the sum as it stands, without min(score, 100)
_calculate_severity_uncapped(violations, has_intent) ==
    IF violations = <<>> THEN 0
    ELSE SumWeights(violations)
         + (IF has_intent THEN INTENT_BONUS ELSE 0)
         + MULTIPLE_BONUS * (Len(violations) - 1)

\* _calculate_severity adding the bonuses before it looks at the violation list
_calculate_severity_unguarded(violations, has_intent) ==
    Min(SumWeights(violations)
        + (IF has_intent THEN INTENT_BONUS ELSE 0)
        + (IF Len(violations) > 1 THEN MULTIPLE_BONUS * (Len(violations) - 1) ELSE 0),
        MAX_SCORE)

\* _calculate_severity adding 10 for every violation, the first one included
_calculate_severity_bonus_each(violations, has_intent) ==
    IF violations = <<>> THEN 0
    ELSE Min(SumWeights(violations)
             + (IF has_intent THEN INTENT_BONUS ELSE 0)
             + MULTIPLE_BONUS * Len(violations),
             MAX_SCORE)

\* ContactModerationSystem._calculate_severity
_calculate_severity(violations, has_intent) ==
    IF violations = <<>> THEN 0
    ELSE
        LET score1 == SumWeights(violations)
            score2 == IF has_intent THEN score1 + INTENT_BONUS ELSE score1
            score3 == IF Len(violations) > 1
                      THEN score2 + MULTIPLE_BONUS * (Len(violations) - 1)
                      ELSE score2
        IN  Min(score3, MAX_SCORE)

HasKind(violations, kinds) ==
    \E i \in 1..Len(violations) : violations[i][1] \in kinds

\* the 'high' branch with the confidence taken from has_intent alone
_should_block_high_by_intent(violations, has_intent, severity) ==
    <<TRUE, IF has_intent THEN "high" ELSE "medium">>

\* _should_block, the branch of self.sensitivity == 'high'
_should_block_high(violations, has_intent, severity) ==
    <<TRUE, IF has_intent \/ severity >= HIGH_CONFIDENCE_SCORE THEN "high" ELSE "medium">>

\* the 'medium' branch without its rule for multiple violations
_should_block_medium_single(violations, has_intent, severity) ==
    IF HasKind(violations, {"phone_number", "email_address", "upi_id", "payment_handle"})
    THEN <<TRUE, "high">>
    ELSE IF has_intent /\ violations # <<>> THEN <<TRUE, "medium">>
    ELSE <<FALSE, "low">>

\* the 'medium' branch asking for contact intent before it asks for a high-risk kind
_should_block_medium_intent_first(violations, has_intent, severity) ==
    IF has_intent /\ violations # <<>> THEN <<TRUE, "medium">>
    ELSE IF HasKind(violations, {"phone_number", "email_address", "upi_id", "payment_handle"})
    THEN <<TRUE, "high">>
    ELSE IF Len(violations) >= 2 THEN <<TRUE, "medium">>
    ELSE <<FALSE, "low">>

\* _should_block, the branch of self.sensitivity == 'medium'; without a decision it
\* falls through to the final return
_should_block_medium(violations, has_intent, severity) ==
    IF HasKind(violations, {"phone_number", "email_address", "upi_id", "payment_handle"})
    THEN <<TRUE, "high">>
    ELSE IF has_intent /\ violations # <<>> THEN <<TRUE, "medium">>
    ELSE IF Len(violations) >= 2 THEN <<TRUE, "medium">>
    ELSE <<FALSE, "low">>

\* the else branch blocking on contact intent whatever the kind of the violation
_should_block_low_any_kind(violations, has_intent, severity) ==
    IF has_intent THEN <<TRUE, "high">>
    ELSE IF severity >= LOW_BLOCK_SCORE THEN <<TRUE, "medium">>
    ELSE <<FALSE, "low">>

\* _should_block, the else branch (low and every other sensitivity)
_should_block_low(violations, has_intent, severity) ==
    IF HasKind(violations, {"phone_number", "email_address", "upi_id"}) /\ has_intent
    THEN <<TRUE, "high">>
    ELSE IF severity >= LOW_BLOCK_SCORE THEN <<TRUE, "medium">>
    ELSE <<FALSE, "low">>

\* _should_block without the early return on an empty violation list
_should_block_unguarded(sens, violations, has_intent, severity) ==
    IF sens = "high" THEN _should_block_high(violations, has_intent, severity)
    ELSE IF sens = "medium" THEN _should_block_medium(violations, has_intent, severity)
    ELSE _should_block_low(violations, has_intent, severity)

\* _should_block giving every sensitivity other than 'medium' and 'low' the rules of
\* 'high'
_should_block_strict_default(sens, violations, has_intent, severity) ==
    IF violations = <<>> THEN <<FALSE, "low">>
    ELSE IF sens = "medium" THEN _should_block_medium(violations, has_intent, severity)
    ELSE IF sens = "low" THEN _should_block_low(violations, has_intent, severity)
    ELSE _should_block_high(violations, has_intent, severity)

\* ContactModerationSystem._should_block: <<should_block, confidence_level>>
_should_block(sens, violations, has_intent, severity) ==
    IF violations = <<>> THEN <<FALSE, "low">>
    ELSE IF sens = "high" THEN _should_block_high(violations, has_intent, severity)
    ELSE IF sens = "medium" THEN _should_block_medium(violations, has_intent, severity)
    ELSE _should_block_low(violations, has_intent, severity)

\* a result that reports what was detected only when the message is blocked
ModerationResult_blocked_only(blocked, conf, vtype, pattern, original, normalized, score, violations) ==
    [is_blocked |-> blocked, confidence |-> conf,
     violation_type |-> IF blocked THEN vtype ELSE None,
     detected_pattern |-> IF blocked THEN pattern ELSE None,
     original_text |-> original, normalized_text |-> normalized,
     severity_score |-> IF blocked THEN score ELSE 0,
     all_violations |-> IF blocked THEN violations ELSE <<>>]

\* the ModerationResult moderate_message builds
ModerationResult(blocked, conf, vtype, pattern, original, normalized, score, violations) ==
    [is_blocked |-> blocked, confidence |-> conf,
     violation_type |-> vtype, detected_pattern |-> pattern,
     original_text |-> original, normalized_text |-> normalized,
     severity_score |-> score, all_violations |-> violations]

\* the matched text of the violation found last
last_pattern(violations) ==
    IF violations # <<>> THEN violations[Len(violations)][2] ELSE None

\* violations[0][0] if violations else None
primary_type(violations) ==
    IF violations # <<>> THEN violations[1][1] ELSE None

\* violations[0][1] if violations else None
primary_pattern(violations) ==
    IF violations # <<>> THEN violations[1][2] ELSE None

\* a call with message=None: there is no text to take the length of
NoMessage == [none |-> TRUE]

\* `not message`: true of None and of the empty string
not_message(m) == "text" \notin DOMAIN m \/ m.text = <<>>

\* `if is_blocked:` in place of `if is_blocked and user_id:`
Supplied_any(u) == TRUE

\* the truth value of user_id in `is_blocked and user_id`: None and '' are false
Supplied(u) == u # None /\ u # ""

\* the whole message handed on, without message[:max_length]
Truncated_whole(m) == m

\* message = message[:10000]: from here on the patterns and the context phrases are
\* searched in the first max_length characters, and what they find there is what
\* the message holds as prefix_found and prefix_context
Truncated(m) ==
    IF Len(m.text) > MAX_MESSAGE_LENGTH
    THEN [text |-> SubSeq(m.text, 1, MAX_MESSAGE_LENGTH),
          found |-> m.prefix_found, context |-> m.prefix_context]
    ELSE m

\* moderate_message consulting the rate limiter: the message of a rate limited user
\* is blocked whatever it holds
moderate_message_gated(sens, m, u, uv, t) ==
    IF not_message(m)
    THEN [result |-> ModerationResult(FALSE, "low", None, None, <<>>, <<>>, 0, <<>>),
          user_violations |-> uv]
    ELSE
        LET msg == Truncated(m)
            all_violations == detect_all_patterns(msg)
            has_intent == has_contact_intent(msg)
            severity_score == _calculate_severity(all_violations, has_intent)
            decision == _should_block(sens, all_violations, has_intent, severity_score)
            limited == Supplied(u) /\ is_rate_limited(uv, u, t).value
            is_blocked == limited \/ decision[1]
        IN  [result |-> ModerationResult(is_blocked,
                                         IF limited THEN "high" ELSE decision[2],
                                         primary_type(all_violations),
                                         primary_pattern(all_violations), msg.text,
                                         normalize(msg.text), severity_score,
                                         all_violations),
             user_violations |->
                 IF is_blocked /\ Supplied(u) THEN add_violation(uv, u, t) ELSE uv]

\* moderate_message asking the rate limiter for the count of the user before it
\* looks at the message: the cleanup stores the key of the user
moderate_message_touching(sens, m, u, uv, t) ==
    LET seen == IF Supplied(u) THEN get_violation_count(uv, u, t).user_violations ELSE uv
    IN  IF not_message(m)
        THEN [result |-> ModerationResult(FALSE, "low", None, None, <<>>, <<>>, 0, <<>>),
              user_violations |-> seen]
        ELSE
            LET msg == Truncated(m)
                all_violations == detect_all_patterns(msg)
                has_intent == has_contact_intent(msg)
                severity_score == _calculate_severity(all_violations, has_intent)
                decision == _should_block(sens, all_violations, has_intent, severity_score)
            IN  [result |-> ModerationResult(decision[1], decision[2],
                                             primary_type(all_violations),
                                             primary_pattern(all_violations), msg.text,
                                             normalize(msg.text), severity_score,
                                             all_violations),
                 user_violations |->
                     IF decision[1] /\ Supplied(u) THEN add_violation(seen, u, t) ELSE seen]

\* ContactModerationSystem.moderate_message of the engine with sensitivity sens, on
\* message m for user u, with the rate limiter holding uv at time t: the result
\* returned and the dictionary left behind
moderate_message(sens, m, u, uv, t) ==
    IF not_message(m)
    THEN [result |-> ModerationResult(FALSE, "low", None, None, <<>>, <<>>, 0, <<>>),
          user_violations |-> uv]
    ELSE
        LET msg == Truncated(m)
            normalized_text == normalize(msg.text)
            all_violations == detect_all_patterns(msg)
            has_intent == has_contact_intent(msg)
            severity_score == _calculate_severity(all_violations, has_intent)
            decision == _should_block(sens, all_violations, has_intent, severity_score)
            is_blocked == decision[1]
            confidence == decision[2]
            violation_type == primary_type(all_violations)
            detected_pattern == primary_pattern(all_violations)
        IN  [result |-> ModerationResult(is_blocked, confidence, violation_type,
                                         detected_pattern, msg.text, normalized_text,
                                         severity_score, all_violations),
             user_violations |->
                 IF is_blocked /\ Supplied(u) THEN add_violation(uv, u, t) ELSE uv]

-----------------------------------------------------------------------------
(* Messages *)

Alphabet == {"A"}

RECURSIVE SeqsUpTo(_, _)
SeqsUpTo(S, n) ==
    IF n = 0 THEN {<<>>}
    ELSE LET shorter == SeqsUpTo(S, n - 1)
         IN  shorter \cup {Append(s, c) : s \in shorter, c \in S}

Texts == SeqsUpTo(Alphabet, MaxChars)

\* the patterns that are let match together in one message
CommonPatterns ==
    {"phone_pattern", "mixed_pattern", "email_pattern", "url_pattern",
     "upi_pattern", "payment_pattern", "whatsapp_pattern", "telegram_pattern",
     "extension_pattern"}

\* the outcomes of the pattern searches with at most n matching patterns of ps: the
\* patterns that match, each with the digit count of its match
RECURSIVE FoundUpTo(_, _)
FoundUpTo(ps, n) ==
    IF n = 0 THEN {<<>>}
    ELSE LET fewer == FoundUpTo(ps, n - 1)
         IN  fewer \cup UNION {{(p :> d) @@ f : d \in MatchDigits(p)} :
                                f \in fewer, p \in ps}

\* any one pattern alone, or up to MaxMatches of the common ones together
FoundSets ==
    UNION {{(p :> d) : d \in MatchDigits(p)} : p \in PatternSet}
    \cup FoundUpTo(CommonPatterns, MaxMatches)

\* the context facts the detector reads for the patterns that matched
ContextRead(found) ==
    {"contact_intent"}
    \cup (IF DOMAIN found \cap NumberPatterns # {}
          THEN {"sharing_phrase", "exclude_phrase", "safe_context"} ELSE {})
    \cup (IF "ssn_pattern" \in DOMAIN found THEN {"ssn_context", "date_context"} ELSE {})

Messages ==
    {[text |-> <<>>, found |-> <<>>, context |-> {}]}
    \cup UNION {{[text |-> t, found |-> f, context |-> c] :
                    t \in Texts \ {<<>>}, c \in SUBSET ContextRead(f)} :
                f \in FoundSets}

-----------------------------------------------------------------------------
(* demo_usage: the same message through an engine of each sensitivity *)

\* RateLimiter.__init__: defaultdict(list)
EmptyDict == [u \in {} |-> <<>>]

NoReply == [op |-> None, value |-> None]

InitDemo ==
    /\ message \in Messages
    /\ user_id = None
    /\ results = <<>>
    /\ sensitivity = "high"
    /\ user_violations = EmptyDict
    /\ added = <<>>
    /\ now = 0
    /\ reply = NoReply
    /\ pc = <<>>
    /\ local = <<>>

\* one turn of `for sensitivity in ['low', 'medium', 'high']`: a new engine moderates
\* the message
DemoModerate ==
    /\ Len(results) < Len(Sensitivities)
    /\ LET s == Sensitivities[Len(results) + 1]
       IN  results' = Append(results, moderate_message(s, message, None, EmptyDict, now).result)
    /\ UNCHANGED <<message, user_id, sensitivity, user_violations, added, now, reply, pc,
                   local>>

NextDemo == DemoModerate

SpecDemo == InitDemo /\ [][NextDemo]_vars

\* the results of the engines of low, medium and high sensitivity, once they ran
Index(s) == CHOOSE i \in 1..Len(Sensitivities) : Sensitivities[i] = s
Ran(s) == Index(s) <= Len(results)
Result(s) == results[Index(s)]

\* the severity before min(score, 100)
RawScore(r) ==
    SumWeights(r.all_violations)
    + (IF has_contact_intent(message) THEN INTENT_BONUS ELSE 0)
    + MULTIPLE_BONUS * (Len(r.all_violations) - 1)

\* C1: whatever the message and the sensitivity, a result with is_blocked true has a
\* non-empty all_violations list.
C1_BlockedHasViolations ==
    \A i \in 1..Len(results) :
        results[i].is_blocked => results[i].all_violations # <<>>

\* a message with contact intent that the low engine blocks and one that no engine
\* blocks are both among the messages; here the low engine has blocked
C1_Witness ==
    /\ Ran("high")
    /\ Result("low").is_blocked
    /\ has_contact_intent(message)
    /\ Len(Result("low").all_violations) = 1

\* C2: a message the low engine blocks is blocked by the medium engine and by the
\* high engine.
C2_Monotone ==
    /\ (Ran("medium") /\ Result("low").is_blocked) => Result("medium").is_blocked
    /\ (Ran("high") /\ Result("low").is_blocked) => Result("high").is_blocked

\* low blocks on the severity alone, medium on the number of violations alone
C2_Witness ==
    /\ Ran("high")
    /\ Result("low").is_blocked
    /\ Result("low").confidence = "medium"
    /\ ~has_contact_intent(message)
    /\ ~HasKind(Result("medium").all_violations,
                {"phone_number", "email_address", "upi_id", "payment_handle"})
    /\ Result("medium").is_blocked

\* C3: severity_score is an integer from 0 to 100 in every result.
C3_SeverityRange ==
    \A i \in 1..Len(results) : results[i].severity_score \in 0..100

\* the weights and bonuses add up to more than 100 and the score is 100
C3_Witness ==
    \E i \in 1..Len(results) :
        /\ RawScore(results[i]) > MAX_SCORE
        /\ results[i].severity_score = MAX_SCORE

\* C4: in every result severity_score is 0 exactly when all_violations is empty.
C4_ZeroIffEmpty ==
    \A i \in 1..Len(results) :
        (results[i].severity_score = 0) <=> (results[i].all_violations = <<>>)

\* contact intent and a pattern match, yet no violation: the score is 0
C4_Witness ==
    /\ Ran("high")
    /\ has_contact_intent(message)
    /\ DOMAIN message.found # {}
    /\ Result("high").all_violations = <<>>
    /\ Result("high").severity_score = 0

\* C5: violation_type and detected_pattern are both absent when all_violations is
\* empty, and otherwise both present and equal to the kind and the matched text of the
\* first violation.
C5_PrimaryIsFirst ==
    \A i \in 1..Len(results) :
        LET r == results[i]
        IN  IF r.all_violations = <<>>
            THEN r.violation_type = None /\ r.detected_pattern = None
            ELSE /\ r.violation_type # None /\ r.detected_pattern # None
                 /\ r.violation_type = r.all_violations[1][1]
                 /\ r.detected_pattern = r.all_violations[1][2]

\* several violations of different kinds and texts, the first one reported
C5_Witness ==
    \E i \in 1..Len(results) :
        LET r == results[i]
        IN  /\ Len(r.all_violations) = MaxMatches
            /\ r.all_violations[1][1] # r.all_violations[Len(r.all_violations)][1]
            /\ r.detected_pattern = r.all_violations[1][2]
            /\ r.detected_pattern # r.all_violations[Len(r.all_violations)][2]

\* what a result says of the message apart from the decision
Detected(r) ==
    <<r.normalized_text, r.all_violations, r.violation_type, r.detected_pattern,
      r.severity_score>>

\* C6: the engines of low, medium and high sensitivity return the same
\* normalized_text, all_violations, violation_type, detected_pattern and
\* severity_score for the same message.
C6_SensitivityOnlyDecides ==
    \A i, j \in 1..Len(results) : Detected(results[i]) = Detected(results[j])

\* the three engines disagree on the decision and on the confidence
C6_Witness ==
    /\ Ran("high")
    /\ ~Result("low").is_blocked /\ ~Result("medium").is_blocked /\ Result("high").is_blocked
    /\ Result("low").confidence # Result("high").confidence
    /\ Result("high").all_violations # <<>>

-----------------------------------------------------------------------------
(* One ContactModerationSystem with its RateLimiter: a session of calls of  *)
(* moderate_message on one message and of the rate limiter's methods, as in *)
(* the rate limiting demo of demo_usage, while the clock advances.          *)

Users == {"u1"}

\* the messages of a session: no match, a URL, a phone number; with and without a
\* contact intent phrase
SessionMessages ==
    {[text |-> <<"A">>, found |-> f, context |-> c] :
        f \in {<<>>, ("url_pattern" :> 0), ("phone_pattern" :> 10)},
        c \in {{}, {"contact_intent"}}}

Init ==
    /\ message \in SessionMessages
    /\ sensitivity \in SensitivitySet
    /\ user_id = None
    /\ results = <<>>
    /\ user_violations = EmptyDict
    /\ added = [u \in Users |-> <<>>]
    /\ now = 0
    /\ reply = NoReply
    /\ pc = <<>>
    /\ local = <<>>

\* system.moderate_message(message, user_id=u); results keeps the different results
\* the calls of the session returned
ModerateMessage(u) ==
    \E out \in {moderate_message(sensitivity, message, u, user_violations, now)} :
        /\ (out.result.is_blocked /\ u # None) => Len(added[u]) < MaxRecorded
        /\ results' = IF \E i \in 1..Len(results) : results[i] = out.result
                      THEN results ELSE Append(results, out.result)
        /\ user_violations' = out.user_violations
        /\ added' = IF out.result.is_blocked /\ u # None
                    THEN [added EXCEPT ![u] = Append(@, now)] ELSE added
        /\ user_id' = u
        /\ reply' = [op |-> "moderate_message", value |-> out.result.is_blocked]
        /\ UNCHANGED <<message, sensitivity, now, pc, local>>

\* system.rate_limiter.add_violation(u)
AddViolation(u) ==
    /\ Len(added[u]) < MaxRecorded
    /\ user_violations' = add_violation(user_violations, u, now)
    /\ added' = [added EXCEPT ![u] = Append(@, now)]
    /\ user_id' = u
    /\ reply' = [op |-> "add_violation", value |-> None]
    /\ UNCHANGED <<message, results, sensitivity, now, pc, local>>

\* system.rate_limiter.get_violation_count(u)
GetViolationCount(u) ==
    \E out \in {get_violation_count(user_violations, u, now)} :
        /\ user_violations' = out.user_violations
        /\ user_id' = u
        /\ reply' = [op |-> "get_violation_count", value |-> out.value]
        /\ UNCHANGED <<message, results, sensitivity, added, now, pc, local>>

\* system.rate_limiter.is_rate_limited(u)
IsRateLimited(u) ==
    \E out \in {is_rate_limited(user_violations, u, now)} :
        /\ user_violations' = out.user_violations
        /\ user_id' = u
        /\ reply' = [op |-> "is_rate_limited", value |-> out.value]
        /\ UNCHANGED <<message, results, sensitivity, added, now, pc, local>>

\* datetime.now() moves on between two calls
Tick ==
    /\ now < MaxTicks * TickMinutes
    /\ now' = now + TickMinutes
    /\ user_id' = None
    /\ reply' = NoReply
    /\ UNCHANGED <<message, results, sensitivity, user_violations, added, pc, local>>

Next ==
    \/ \E u \in Users \cup {None} : ModerateMessage(u)
    \/ \E u \in Users : AddViolation(u)
    \/ \E u \in Users : GetViolationCount(u)
    \/ \E u \in Users : IsRateLimited(u)
    \/ Tick

Spec == Init /\ [][Next]_vars

\* every recorded call of add_violation(u) is less than window_minutes old
InWindow(u) ==
    \A i \in 1..Len(added[u]) : now - added[u][i] < window_minutes

Verdict(r) == <<r.is_blocked, r.confidence, r.severity_score, r.all_violations>>

\* C7: for a fixed message and sensitivity every call of moderate_message of the
\* session returns the same is_blocked, confidence, severity_score and all_violations,
\* whatever the user and whatever the rate limiter holds.
C7_VerdictNotGated ==
    \A i, j \in 1..Len(results) : Verdict(results[i]) = Verdict(results[j])

\* a rate limited user's message is let through
C7_Witness ==
    /\ reply.op = "moderate_message"
    /\ user_id \in Users
    /\ is_rate_limited(user_violations, user_id, now).value
    /\ ~reply.value
    /\ Len(results) = 1

\* C8: for a user who started with no violations, while all the calls of
\* add_violation(u) and the query are less than window_minutes apart,
\* get_violation_count(u) returns the number k of calls (1 <= k <= max_violations),
\* and is_rate_limited(u) returns true once max_violations calls were made and false
\* before.
C8_CountsWithinWindow ==
    \A u \in Users :
        (user_id = u /\ InWindow(u)) =>
            /\ (reply.op = "get_violation_count" /\ Len(added[u]) \in 1..max_violations)
                   => reply.value = Len(added[u])
            /\ (reply.op = "is_rate_limited" /\ Len(added[u]) >= max_violations)
                   => reply.value = TRUE
            /\ (reply.op = "is_rate_limited" /\ Len(added[u]) < max_violations)
                   => reply.value = FALSE

\* the third blocked message of a user, at different times of one window, has made
\* the user rate limited
C8_Witness ==
    /\ reply.op = "is_rate_limited"
    /\ user_id \in Users
    /\ reply.value = TRUE
    /\ Len(added[user_id]) = max_violations
    /\ added[user_id][1] < added[user_id][max_violations]
    /\ InWindow(user_id)
    /\ results # <<>>
    /\ results[1].is_blocked

\* C9: once window_minutes have passed since the last call of add_violation(u),
\* get_violation_count(u) returns 0 and is_rate_limited(u) returns false.
C9_WindowExpires ==
    \A u \in Users :
        (/\ user_id = u
         /\ added[u] # <<>>
         /\ now - added[u][Len(added[u])] >= window_minutes) =>
            /\ reply.op = "get_violation_count" => reply.value = 0
            /\ reply.op = "is_rate_limited" => reply.value = FALSE

\* a user who was rate limited is asked about exactly window_minutes after the last
\* violation
C9_Witness ==
    /\ reply.op = "is_rate_limited"
    /\ user_id \in Users
    /\ Len(added[user_id]) >= max_violations
    /\ now - added[user_id][Len(added[user_id])] = window_minutes
    /\ reply.value = FALSE

-----------------------------------------------------------------------------
(* Concurrent callers of one RateLimiter.  The methods take no lock, so the *)
(* callers interleave between the statements that read and write            *)
(* user_violations.  A step is one such read or write; the subscript read   *)
(* and the append of add_violation are taken as one step, and so is the     *)
(* list comprehension of the cleanup.  All the calls are for one user and   *)
(* happen at one time, so that no timestamp leaves the window.              *)

Threads == {"t1", "t2"}

contended == "u1"

\* the locals of a caller: the call it is in, its now, the list the cleanup has
\* filtered, the calls made so far; of its last query, the count it read and the calls
\* of add_violation that had returned when it began (lo) and had begun when it
\* returned (hi)
Idle == [op |-> None, now |-> 0, kept |-> <<>>, calls |-> 0, lo |-> 0, hi |-> 0,
         value |-> 0]

InitConcurrent ==
    /\ message = [text |-> <<>>, found |-> <<>>, context |-> {}]
    /\ sensitivity = "high"
    /\ user_id = contended
    /\ results = <<>>
    /\ user_violations = EmptyDict
    /\ added = [u \in {contended} |-> <<>>]
    /\ now = 0
    /\ reply = NoReply
    /\ pc = [t \in Threads |-> "idle"]
    /\ local = [t \in Threads |-> Idle]

\* the calls of add_violation that have begun and not returned
AddsInProgress ==
    Cardinality({t \in Threads : pc[t] # "idle" /\ local[t].op = "add_violation"})

\* a caller enters add_violation: now = datetime.now()
CallAddViolation(t) ==
    /\ pc[t] = "idle"
    /\ local[t].calls < MaxCalls
    /\ local' = [local EXCEPT ![t] = [Idle EXCEPT !.op = "add_violation", !.now = now,
                                                 !.calls = local[t].calls + 1]]
    /\ pc' = [pc EXCEPT ![t] = "append"]
    /\ UNCHANGED <<message, user_id, results, sensitivity, user_violations, added, now,
                   reply>>

\* self.user_violations[user_id].append(now)
AppendNow(t) ==
    /\ pc[t] = "append"
    /\ user_violations' =
           Store(user_violations, contended,
                 Append(Violations(user_violations, contended), local[t].now))
    /\ pc' = [pc EXCEPT ![t] = "cleanup_read"]
    /\ UNCHANGED <<message, user_id, results, sensitivity, added, now, reply, local>>

\* a caller enters get_violation_count or is_rate_limited: now = datetime.now()
CallQuery(t, op) ==
    /\ pc[t] = "idle"
    /\ local[t].calls < MaxCalls
    /\ local' = [local EXCEPT ![t] = [Idle EXCEPT !.op = op, !.now = now,
                                                 !.calls = local[t].calls + 1,
                                                 !.lo = Len(added[contended])]]
    /\ pc' = [pc EXCEPT ![t] = "cleanup_read"]
    /\ UNCHANGED <<message, user_id, results, sensitivity, user_violations, added, now,
                   reply>>

\* _cleanup_old_violations, the right-hand side: the list of the user is read (the
\* defaultdict stores an empty list for a new key) and filtered
CleanupRead(t) ==
    /\ pc[t] = "cleanup_read"
    /\ local' = [local EXCEPT ![t].kept =
                     SelectSeq(Violations(user_violations, contended),
                               LAMBDA v : v > local[t].now - window_minutes)]
    /\ user_violations' =
           Store(user_violations, contended, Violations(user_violations, contended))
    /\ pc' = [pc EXCEPT ![t] = "cleanup_write"]
    /\ UNCHANGED <<message, user_id, results, sensitivity, added, now, reply>>

\* _cleanup_old_violations, the assignment: the filtered list replaces the list of the
\* user; add_violation returns after it
CleanupWrite(t) ==
    /\ pc[t] = "cleanup_write"
    /\ user_violations' = Store(user_violations, contended, local[t].kept)
    /\ IF local[t].op = "add_violation"
       THEN /\ added' = [added EXCEPT ![contended] = Append(@, local[t].now)]
            /\ pc' = [pc EXCEPT ![t] = "idle"]
       ELSE /\ added' = added
            /\ pc' = [pc EXCEPT ![t] = "return"]
    /\ UNCHANGED <<message, user_id, results, sensitivity, now, reply, local>>

\* return len(self.user_violations[user_id]), compared with max_violations by
\* is_rate_limited
Return(t) ==
    /\ pc[t] = "return"
    /\ LET count == Len(Violations(user_violations, contended))
           value == IF local[t].op = "is_rate_limited"
                    THEN count >= max_violations ELSE count
       IN  /\ local' = [local EXCEPT ![t].value = count,
                                     ![t].hi = Len(added[contended]) + AddsInProgress]
           /\ reply' = [op |-> local[t].op, value |-> value]
    /\ pc' = [pc EXCEPT ![t] = "idle"]
    /\ UNCHANGED <<message, user_id, results, sensitivity, user_violations, added, now>>

NextConcurrent ==
    \E t \in Threads :
        \/ CallAddViolation(t)
        \/ AppendNow(t)
        \/ CallQuery(t, "get_violation_count")
        \/ CallQuery(t, "is_rate_limited")
        \/ CleanupRead(t)
        \/ CleanupWrite(t)
        \/ Return(t)

SpecConcurrent == InitConcurrent /\ [][NextConcurrent]_vars

\* C10: the concurrent calls are linearizable.  With every timestamp inside the
\* window this demands that a query returns a count between the number of calls of
\* add_violation that had returned when it began and the number that had begun when it
\* returned, and that, once every caller has returned, the list of the user holds one
\* timestamp for each call of add_violation: none is lost to a concurrent cleanup.
C10_Linearizable ==
    /\ \A t \in Threads :
           pc[t] = "idle" =>
               (local[t].lo <= local[t].value /\ local[t].value <= local[t].hi)
    /\ (\A t \in Threads : pc[t] = "idle") =>
           Len(Violations(user_violations, contended)) = Len(added[contended])

-----------------------------------------------------------------------------
(* One call of moderate_message, on any message, for any caller, with the   *)
(* rate limiter of the engine holding the records of two users.             *)

Callers == {"u1", "u2"}

\* the times at which violations were recorded before the call, and the time of the call
Stamps == {k * TickMinutes : k \in 0..MaxTicks}
CallTime == (MaxTicks + 1) * TickMinutes

\* a list add_violation can have left behind: nothing, one timestamp, or two that
\* are one tick apart
Histories ==
    {<<>>}
    \cup {<<t>> : t \in Stamps}
    \cup {<<t, t + TickMinutes>> : t \in {v \in Stamps : v + TickMinutes \in Stamps}}

\* the dictionaries of the rate limiter: a user has no key, or a list; the list of
\* u2 is empty or has two timestamps
Dictionaries ==
    UNION {{d \in [ks -> Histories] : "u2" \in ks => Len(d["u2"]) # 1} :
              ks \in SUBSET Callers}

\* a text of max_length zero-width characters followed by nothing or by one more
\* character
LongTexts ==
    {[i \in 1..MAX_MESSAGE_LENGTH |-> "U+200B"] \o t : t \in Texts}

\* the long texts with and without a phone number found in them; a text longer than
\* max_length with and without a phone number found in its first max_length
\* characters, with and without a contact intent phrase there
LongMessages ==
    UNION {IF Len(t) > MAX_MESSAGE_LENGTH
           THEN {[text |-> t, found |-> f, context |-> {}, prefix_found |-> pf,
                  prefix_context |-> c] :
                     pf \in {<<>>, ("phone_pattern" :> 10)},
                     c \in {{}, {"contact_intent"}}}
           ELSE {[text |-> t, found |-> f, context |-> {}]} :
                t \in LongTexts, f \in {<<>>, ("phone_pattern" :> 10)}}

\* the messages of a call: None, the empty string, the messages of a session, and
\* the long messages
CallMessages ==
    {NoMessage, [text |-> <<>>, found |-> <<>>, context |-> {}]}
    \cup SessionMessages
    \cup LongMessages

InitCall ==
    /\ message \in CallMessages
    /\ sensitivity \in SensitivitySet
    /\ user_id \in Callers \cup {"", None}
    /\ results = <<>>
    /\ user_violations \in Dictionaries
    /\ added = <<>>
    /\ now = CallTime
    /\ reply = NoReply
    /\ pc = <<>>
    /\ local = <<>>

\* system.moderate_message(message, user_id)
Call ==
    /\ results = <<>>
    /\ \E out \in {moderate_message(sensitivity, message, user_id, user_violations, now)} :
           /\ results' = <<out.result>>
           /\ user_violations' = out.user_violations
           /\ reply' = [op |-> "moderate_message", value |-> out.result.is_blocked]
    /\ UNCHANGED <<message, user_id, sensitivity, added, now, pc, local>>

NextCall == Call

SpecCall == InitCall /\ [][NextCall]_vars

\* the record of user u in the dictionary uv, "absent" when u has no key
Record(uv, u) == IF u \in DOMAIN uv THEN uv[u] ELSE "absent"

\* the number of times the time t stands in the list
Count(list, t) == Cardinality({i \in 1..Len(list) : list[i] = t})

\* C11: a call of moderate_message that blocks and was given a user identifier (a
\* non-empty string) appends exactly one timestamp, the time of the call, to the
\* record of that user, as one call of add_violation does: the timestamps of that
\* user older than the window are dropped with it, and the record of no other user
\* changes.  A call that allows, or that was given no user identifier (None or the
\* empty string), leaves the dictionary of the rate limiter as it was.
C11_LimiterEffect ==
    [][results' # results =>
          IF results'[1].is_blocked /\ user_id \in Callers
          THEN /\ user_violations'[user_id] =
                      SelectSeq(Violations(user_violations, user_id),
                                LAMBDA v : v > now - window_minutes) \o <<now>>
               /\ Count(user_violations'[user_id], now) =
                      Count(Violations(user_violations, user_id), now) + 1
               /\ \A v \in Callers \ {user_id} :
                      Record(user_violations', v) = Record(user_violations, v)
          ELSE user_violations' = user_violations]_vars

\* u1 was blocked while u2 had a record of two timestamps: the record of u1 ends with
\* the time of the call and has lost an older timestamp
C11_Witness ==
    /\ results # <<>>
    /\ results[1].is_blocked
    /\ user_id = "u1"
    /\ user_violations["u1"] = <<MaxTicks * TickMinutes, now>>
    /\ "u2" \in DOMAIN user_violations
    /\ Len(user_violations["u2"]) = 2

\* the default result of moderate_message
DefaultResult ==
    [is_blocked |-> FALSE, confidence |-> "low", violation_type |-> None,
     detected_pattern |-> None, original_text |-> <<>>, normalized_text |-> <<>>,
     severity_score |-> 0, all_violations |-> <<>>]

\* C12: a call of moderate_message with the message None or the empty string returns
\* the default allow result (not blocked, confidence low, no violation type and no
\* detected pattern, original and normalized text empty, severity 0, no violations)
\* and leaves the rate limiter as it was, with a user identifier and without one.
C12_EmptyMessage ==
    [][(/\ results' # results
        /\ (message = NoMessage \/ message.text = <<>>)) =>
           /\ results'[1] = DefaultResult
           /\ user_violations' = user_violations]_vars

\* moderate_message(None, 'u1') has returned; the record of u1 still holds a timestamp
\* that is older than the window
C12_Witness ==
    /\ results # <<>>
    /\ message = NoMessage
    /\ user_id = "u1"
    /\ "u1" \in DOMAIN user_violations
    /\ user_violations["u1"] = <<0>>
    /\ now - window_minutes > 0

\* the first max_length characters of a message as a message of its own
PrefixOf(m) ==
    [text |-> [i \in 1..MAX_MESSAGE_LENGTH |-> m.text[i]],
     found |-> m.prefix_found, context |-> m.prefix_context]

\* C13: the result of moderate_message on a message longer than 10,000 characters is
\* the result of moderate_message on its first 10,000 characters: original_text is
\* that prefix, and normalized text, violations, severity and verdict are those of
\* the prefix, whatever follows it.  The original_text of a message of at most 10,000
\* characters is the message.
C13_Truncation ==
    (results # <<>> /\ message # NoMessage) =>
        IF Len(message.text) > MAX_MESSAGE_LENGTH
        THEN /\ results[1] =
                    moderate_message(sensitivity, PrefixOf(message), None, EmptyDict,
                                     now).result
             /\ Len(results[1].original_text) = MAX_MESSAGE_LENGTH
        ELSE results[1].original_text = message.text

\* a text of 10,001 characters with a letter as its last and a phone number found in
\* the whole of it but not in the first 10,000: normalized to nothing and allowed
C13_Witness ==
    /\ results # <<>>
    /\ message # NoMessage
    /\ Len(message.text) = MAX_MESSAGE_LENGTH + 1
    /\ message.text[MAX_MESSAGE_LENGTH + 1] = "A"
    /\ message.found # <<>>
    /\ message.prefix_found = <<>>
    /\ sensitivity = "high"
    /\ ~results[1].is_blocked
    /\ results[1].normalized_text = <<>>

-----------------------------------------------------------------------------
(* The score and the decision of the three engines of demo_usage, against   *)
(* the tables of weights and rules.                                         *)

\* the weight of a kind in the table of weights
TableWeight(kind) ==
    CASE kind \in {"phone_number", "upi_id"} -> 25
      [] kind \in {"email_address", "payment_handle", "whatsapp_link", "telegram_link",
                   "snapchat_link", "wechat_id", "line_id"} -> 20
      [] kind \in {"url", "social_media_handle", "meeting_code"} -> 15
      [] kind \in {"meeting_link", "calendar_link"} -> 10
      [] kind = "letter_spelling" -> 18
      [] OTHER -> 10

RECURSIVE TableSum(_)
TableSum(violations) ==
    IF violations = <<>> THEN 0
    ELSE TableWeight(violations[1][1]) + TableSum(Tail(violations))

Kinds(r) == {r.all_violations[i][1] : i \in 1..Len(r.all_violations)}

\* C14: the severity_score of a result with n > 0 violations is min(100, the sum of
\* the weights of their kinds + 15 with contact intent + 10 * (n - 1)), a kind
\* without a weight of its own counting 10; with no violation it is 0.
C14_SeverityFormula ==
    \A i \in 1..Len(results) :
        LET r == results[i]
            n == Len(r.all_violations)
            sum == TableSum(r.all_violations)
                   + (IF has_contact_intent(message) THEN 15 ELSE 0) + 10 * (n - 1)
        IN  r.severity_score = IF n = 0 THEN 0 ELSE IF sum < 100 THEN sum ELSE 100

\* a discord tag, a kind without a weight of its own, with contact intent: 10 + 15
C14_Witness ==
    /\ Ran("low")
    /\ Kinds(Result("low")) = {"discord_tag"}
    /\ has_contact_intent(message)
    /\ Result("low").severity_score = 25

\* C15: the engine of high sensitivity blocks exactly the messages with at least one
\* violation; the confidence of a block is high with contact intent or a severity of
\* at least 50 and medium otherwise, and the confidence of an allow is low.
C15_HighRule ==
    Ran("high") =>
        LET r == Result("high")
        IN  /\ r.is_blocked <=> r.all_violations # <<>>
            /\ r.confidence =
                   IF ~r.is_blocked THEN "low"
                   ELSE IF has_contact_intent(message) \/ r.severity_score >= 50
                        THEN "high" ELSE "medium"

\* no contact intent and two violations that score 50 or more: blocked, high
C15_Witness ==
    /\ Ran("high")
    /\ ~has_contact_intent(message)
    /\ Len(Result("high").all_violations) = 2
    /\ Result("high").severity_score >= 50
    /\ Result("high").severity_score < 100
    /\ Result("high").is_blocked
    /\ Result("high").confidence = "high"

\* C16: the engine of medium sensitivity blocks with confidence high a message with a
\* violation of kind phone_number, email_address, upi_id or payment_handle; else it
\* blocks with confidence medium a message with contact intent and a violation; else
\* it blocks with confidence medium a message with two or more violations; else it
\* allows with confidence low.
C16_MediumRule ==
    Ran("medium") =>
        LET r == Result("medium")
            decision == <<r.is_blocked, r.confidence>>
        IN  IF Kinds(r) \cap {"phone_number", "email_address", "upi_id",
                              "payment_handle"} # {}
            THEN decision = <<TRUE, "high">>
            ELSE IF has_contact_intent(message) /\ r.all_violations # <<>>
            THEN decision = <<TRUE, "medium">>
            ELSE IF Len(r.all_violations) >= 2
            THEN decision = <<TRUE, "medium">>
            ELSE decision = <<FALSE, "low">>

\* a payment handle with contact intent: the first rule decides, not the second
C16_Witness ==
    /\ Ran("medium")
    /\ Kinds(Result("medium")) = {"payment_handle"}
    /\ has_contact_intent(message)
    /\ Result("medium").confidence = "high"

\* C17: the engine of low sensitivity blocks with confidence high a message with
\* contact intent and a violation of kind phone_number, email_address or upi_id; else
\* it blocks with confidence medium a message of severity 70 or more; else it allows
\* with confidence low.  A message whose only violation is a social_media_handle,
\* with contact intent, scores 30, is allowed by the low engine and blocked by the
\* high engine.
C17_LowRule ==
    /\ Ran("low") =>
           LET r == Result("low")
               decision == <<r.is_blocked, r.confidence>>
           IN  IF /\ Kinds(r) \cap {"phone_number", "email_address", "upi_id"} # {}
                  /\ has_contact_intent(message)
               THEN decision = <<TRUE, "high">>
               ELSE IF r.severity_score >= 70
               THEN decision = <<TRUE, "medium">>
               ELSE decision = <<FALSE, "low">>
    /\ (/\ Ran("high")
        /\ Len(Result("low").all_violations) = 1
        /\ Kinds(Result("low")) = {"social_media_handle"}
        /\ has_contact_intent(message)) =>
           /\ Result("low").severity_score = 30
           /\ ~Result("low").is_blocked
           /\ Result("high").is_blocked

\* the three engines have moderated a message with contact intent whose only
\* violation is a social media handle
C17_Witness ==
    /\ Ran("high")
    /\ Len(Result("low").all_violations) = 1
    /\ Kinds(Result("low")) = {"social_media_handle"}
    /\ has_contact_intent(message)
    /\ ~Result("low").is_blocked
    /\ Result("high").is_blocked

-----------------------------------------------------------------------------
(* TextNormalizer.normalize applied to a text and to its own output.        *)

\* the letters of the number word "to", upper and lower case, a separator and a digit
WordAlphabet == {"t", "o", "T", " ", "2"}

WordTexts == SeqsUpTo(WordAlphabet, MaxWordChars)

InitNormalize ==
    /\ message \in {[text |-> t, found |-> <<>>, context |-> {}] : t \in WordTexts}
    /\ user_id = None
    /\ results = <<>>
    /\ sensitivity = "high"
    /\ user_violations = EmptyDict
    /\ added = <<>>
    /\ now = 0
    /\ reply = NoReply
    /\ pc = <<>>
    /\ local = <<>>

\* TextNormalizer.normalize(text), then TextNormalizer.normalize of what it returned
Normalize ==
    /\ Len(results) < 2
    /\ results' = Append(results, normalize(IF results = <<>> THEN message.text
                                            ELSE results[Len(results)]))
    /\ UNCHANGED <<message, user_id, sensitivity, user_violations, added, now, reply, pc,
                   local>>

NextNormalize == Normalize

SpecNormalize == InitNormalize /\ [][NextNormalize]_vars

\* C18: normalizing a normalized text returns it unchanged:
\* normalize(normalize(m)) = normalize(m) for every text m, also when the removal of
\* the separators joins letters into a number word.
C18_Idempotent ==
    Len(results) = 2 => results[2] = results[1]

-----------------------------------------------------------------------------
(* The special-character obfuscation case of run_tests: a ten-digit number  *)
(* with a separator between every two characters.  Here the patterns are    *)
(* searched in the text itself.                                             *)

DIGITS == {"0", "1", "2", "3", "4", "5", "6", "7", "8", "9"}

WHITESPACE == {" ", "U+0009", "U+000A", "U+000B", "U+000C", "U+000D"}

CURRENCY_SIGNS == {"$", "U+20AC", "U+00A3", "U+00A5"}

\* the number of digits from position i of s on
RECURSIVE RunLength(_, _)
RunLength(s, i) ==
    IF i > Len(s) THEN 0
    ELSE IF s[i] \notin DIGITS THEN 0
    ELSE 1 + RunLength(s, i + 1)

\* phone_pattern.search(s), \d{5,15}: the length of the match, 0 without a match
phone_pattern_search(s) ==
    IF \E i \in 1..Len(s) : RunLength(s, i) >= 5
    THEN LET first == CHOOSE i \in 1..Len(s) :
                          /\ RunLength(s, i) >= 5
                          /\ \A j \in 1..(i - 1) : RunLength(s, j) < 5
         IN  Min(RunLength(s, first), 15)
    ELSE 0

\* safe_contexts, \b(price|cost|amount|\$|usd|...)\b: a dollar sign with a word
\* boundary on either side
dollar_keyword(s) ==
    \E i \in 1..Len(s) : s[i] = "$" /\ WordBoundary(s, i) /\ WordBoundary(s, i + 1)

\* \b(v|version)?\s*\d+\.\d+(\.\d+)?\b in a text without the letter v: digits, a
\* dot, digits, with a word boundary in front of the white space before the first
\* digit and behind the last; an IP address has such a match too
version_number(s) ==
    \E a \in 1..Len(s) : \E b \in a..Len(s) : \E d \in (b + 2)..Len(s) :
        /\ \A k \in a..b : s[k] \in DIGITS
        /\ s[b + 1] = "."
        /\ \A k \in (b + 2)..d : s[k] \in DIGITS
        /\ \E from \in 1..a : /\ \A k \in from..(a - 1) : s[k] \in WHITESPACE
                              /\ WordBoundary(s, from)
        /\ WordBoundary(s, d + 1)

\* [$€£¥]\s*[\d,]+\.?\d*: a currency sign, white space, a digit or a comma
currency_amount(s) ==
    \E i \in 1..Len(s) : \E j \in (i + 1)..Len(s) :
        /\ s[i] \in CURRENCY_SIGNS
        /\ \A k \in (i + 1)..(j - 1) : s[k] \in WHITESPACE
        /\ s[j] \in DIGITS \cup {","}

\* what the detector finds in a text of single digits, the letters n and e and
\* separators: phone_pattern in the normalized text, and of the checks of
\* _is_false_positive_number the three that such a text can meet; no keyword, date,
\* time, card or passport format and no intent phrase occurs in it
Searched(text) ==
    LET digits == phone_pattern_search(normalize(text))
    IN  [text |-> text,
         found |-> IF digits > 0 THEN ("phone_pattern" :> digits) ELSE <<>>,
         context |-> IF dollar_keyword(text) \/ version_number(text)
                        \/ currency_amount(text)
                     THEN {"safe_context"} ELSE {}]

PhoneDigits == <<"9", "8", "7", "6", "5", "4", "3", "2", "1", "0">>

\* the separators of the texts: characters of the obfuscation class
Separators == {"!", "$", ".", ":", "-", " "}

\* the digits with separator a after every digit at an odd place and separator b
\* after every digit at an even place
Separated(a, b) ==
    [i \in 1..(2 * Len(PhoneDigits) - 1) |->
        IF i % 2 = 1 THEN PhoneDigits[(i + 1) \div 2]
        ELSE IF i % 4 = 2 THEN a ELSE b]

\* "n!n#e$8%7^6&5*4(3)2+1=0"
SpecialCharCase ==
    <<"n", "!", "n", "#", "e", "$", "8", "%", "7", "^", "6", "&", "5", "*", "4", "(",
      "3", ")", "2", "+", "1", "=", "0">>

ObfuscatedTexts ==
    {SpecialCharCase} \cup {Separated(a, b) : a \in Separators, b \in Separators}

InitObfuscated ==
    /\ message \in {Searched(t) : t \in ObfuscatedTexts}
    /\ sensitivity \in SensitivitySet
    /\ user_id = None
    /\ results = <<>>
    /\ user_violations = EmptyDict
    /\ added = <<>>
    /\ now = 0
    /\ reply = NoReply
    /\ pc = <<>>
    /\ local = <<>>

NextObfuscated == Call

SpecObfuscated == InitObfuscated /\ [][NextObfuscated]_vars

\* C19: a message that spells a ten-digit number with a character of the
\* obfuscation class between every two of its characters, the case
\* n!n#e$8%7^6&5*4(3)2+1=0 among them, is normalized to the ten digits 9876543210,
\* and the engine of high sensitivity blocks it with violation_type phone_number,
\* whichever characters of the class separate the digits.
C19_ObfuscationBlocked ==
    (results # <<>> /\ sensitivity = "high") =>
        /\ results[1].normalized_text = PhoneDigits
        /\ results[1].is_blocked
        /\ results[1].violation_type = "phone_number"

-----------------------------------------------------------------------------
(* The cutoff of the cleanup, in the sessions of Spec.                      *)

\* the timestamps recorded for u that are at most window_minutes old
AtOrAfterCutoff(u) ==
    SelectSeq(added[u], LAMBDA t : t >= now - window_minutes)

\* C20: the cleanup at the time now of add_violation, get_violation_count or
\* is_rate_limited removes from the list of the user exactly the timestamps t with
\* t < now - window_minutes: the list keeps every recorded timestamp at or after the
\* cutoff, one that is exactly window_minutes old too, and the count returned counts
\* them all.
C20_PruneBoundary ==
    \A u \in Users :
        (user_id = u /\ reply.op \in {"add_violation", "get_violation_count",
                                      "is_rate_limited"}) =>
            /\ Violations(user_violations, u) = AtOrAfterCutoff(u)
            /\ reply.op = "get_violation_count" => reply.value = Len(AtOrAfterCutoff(u))

-----------------------------------------------------------------------------
(* The keys of user_violations, in the sessions of Spec.                    *)

\* C21: a user has an entry in the dictionary of the rate limiter only if
\* add_violation was called for that user: get_violation_count and is_rate_limited
\* on a user never seen return 0 and false and create no entry.
C21_KeysOnlyOfViolators ==
    /\ \A u \in DOMAIN user_violations : added[u] # <<>>
    /\ \A u \in Users :
           (user_id = u /\ added[u] = <<>>) =>
               /\ reply.op = "get_violation_count" => reply.value = 0
               /\ reply.op = "is_rate_limited" => reply.value = FALSE

-----------------------------------------------------------------------------
(* PatternDetector.detect_all_patterns on a message in which any patterns   *)
(* of the detector match together.                                          *)

\* the messages in which up to n of the patterns ps match, with every reading of the
\* context the detector makes for them
DetectorMessages(ps, n) ==
    UNION {{[text |-> <<"A">>, found |-> f, context |-> c] :
                c \in SUBSET ContextRead(f)} :
           f \in FoundUpTo(ps, n)}

InitDetect ==
    /\ message \in DetectorMessages(PatternSet, MaxFound)
    /\ user_id = None
    /\ results = <<>>
    /\ sensitivity = "high"
    /\ user_violations = EmptyDict
    /\ added = <<>>
    /\ now = 0
    /\ reply = NoReply
    /\ pc = <<>>
    /\ local = <<>>

\* violations = self.detector.detect_all_patterns(message, normalized_text)
Detect ==
    /\ results = <<>>
    /\ results' = <<detect_all_patterns(message)>>
    /\ UNCHANGED <<message, user_id, sensitivity, user_violations, added, now, reply, pc,
                   local>>

NextDetect == Detect

SpecDetect == InitDetect /\ [][NextDetect]_vars

\* how many violations of the kind the list holds
OfKind(violations, kind) ==
    Cardinality({i \in 1..Len(violations) : violations[i][1] = kind})

\* C22: the first phone detector that reports suppresses the phone detectors after
\* it: the list detect_all_patterns returns holds at most one violation of kind
\* phone_number, the extension detector counted among the phone detectors.
C22_OnePhoneNumber ==
    results # <<>> => OfKind(results[1], "phone_number") <= 1

\* the kinds of violation other than phone_number
OtherKinds ==
    {"email_address", "url", "social_media_handle", "discord_tag", "upi_id",
     "payment_handle", "whatsapp_link", "telegram_link", "snapchat_link", "wechat_id",
     "line_id", "meeting_link", "meeting_code", "calendar_link", "ssn",
     "letter_spelling"}

\* C23: the list detect_all_patterns returns holds at most one violation of every
\* kind other than phone_number, also when several patterns of one kind match: the
\* plain, normalized, unicode, placeholder and spelled email patterns, the plain and
\* the obfuscated url pattern, the plain and the contextual upi pattern.
C23_OnePerKind ==
    results # <<>> => \A kind \in OtherKinds : OfKind(results[1], kind) <= 1

\* the kinds in the order of the table of detectors
TableOrder ==
    <<"phone_number", "email_address", "url", "social_media_handle", "discord_tag",
      "upi_id", "payment_handle", "whatsapp_link", "telegram_link", "snapchat_link",
      "wechat_id", "line_id", "meeting_link", "meeting_code", "calendar_link", "ssn",
      "letter_spelling">>

Rank(kind) == CHOOSE i \in 1..Len(TableOrder) : TableOrder[i] = kind

\* C24: the list detect_all_patterns returns is in the order of the table of
\* detectors: of two violations of different kinds the one whose kind stands earlier
\* in the table stands earlier in the list, so that a phone_number violation, when
\* there is one, is the first of the list and gives the violation_type.
C24_TableOrder ==
    results # <<>> =>
        LET violations == results[1]
        IN  /\ \A i \in 1..Len(violations) : \A j \in (i + 1)..Len(violations) :
                   Rank(violations[i][1]) <= Rank(violations[j][1])
            /\ OfKind(violations, "phone_number") > 0 =>
                   primary_type(violations) = "phone_number"

\* the violation is the phone_number a phone detector reported for its pattern
PhoneCandidate(violation) == violation[1] = "phone_number"

\* the classification of the match of pattern p as a false positive: a safe context
\* in the text, or fewer than 5 or more than 15 digits in the match
FalsePositive(p) ==
    \/ "safe_context" \in message.context
    \/ message.found[p] < 5
    \/ message.found[p] > 15

\* a contact sharing phrase in the text and no exclusion phrase
SharingIntent ==
    /\ "sharing_phrase" \in message.context
    /\ "exclude_phrase" \notin message.context

\* C25: whichever phone detector reports it, a phone_number whose match is
\* classified as a false positive is in the list only with contact sharing intent
\* and at least 10 digits in the match: intent with fewer than 10 digits does not
\* bypass the filter, and a text with an exclusion phrase never bypasses it.
C25_FilterEveryCandidate ==
    results # <<>> =>
        \A i \in 1..Len(results[1]) :
            (PhoneCandidate(results[1][i]) /\ FalsePositive(results[1][i][2])) =>
                (SharingIntent /\ message.found[results[1][i][2]] >= 10)

-----------------------------------------------------------------------------
(* The HTTP endpoints of the detector, src/backend/api/routers/pii.py *)

\* DetectPIIRequest.user_id: Optional[str], None when the payload has none
RequestUsers == Users \cup {None}

\* _build_default_detector() under lru_cache: the one ContactModerationSystem the
\* process keeps, built at its first use; user_violations is its limiter's dictionary
get_default_detector == [rate_limiter |-> user_violations]

\* the server is up: no request was served, the dictionary of the default detector
\* is the one its constructor made
InitApi ==
    /\ message \in SessionMessages
    /\ sensitivity \in SensitivitySet
    /\ user_id = None
    /\ results = <<>>
    /\ user_violations = EmptyDict
    /\ added = [u \in Users |-> <<>>]
    /\ now = 0
    /\ reply = NoReply
    /\ pc = <<>>
    /\ local = EmptyDict

\* POST /api/pii/detect: detector = ContactModerationSystem(payload.sensitivity),
\* a new engine with a new RateLimiter, then detector.moderate_message(payload.text,
\* user_id=payload.user_id); local is the dictionary of that detector when the
\* handler returns, added[u] the times of the blocked requests that carried u
detect_pii(u) ==
    \E m \in SessionMessages, sens \in SensitivitySet :
        \E out \in {moderate_message(sens, m, u, EmptyDict, now)} :
            /\ (out.result.is_blocked /\ u # None) => Len(added[u]) < MaxRecorded
            /\ message' = m
            /\ sensitivity' = sens
            /\ results' = <<out.result>>
            /\ local' = out.user_violations
            /\ added' = IF out.result.is_blocked /\ u # None
                        THEN [added EXCEPT ![u] = Append(@, now)] ELSE added
            /\ user_id' = u
            /\ reply' = [op |-> "detect_pii", value |-> out.result.is_blocked]
            /\ UNCHANGED <<user_violations, now, pc>>

\* GET /api/pii/user-violations/{user_id}: get_violation_count then is_rate_limited
\* of the rate limiter of the default detector
get_user_violations(u) ==
    \E counted \in {get_violation_count(get_default_detector.rate_limiter, u, now)} :
        \E limited \in {is_rate_limited(counted.user_violations, u, now)} :
            /\ user_violations' = limited.user_violations
            /\ user_id' = u
            /\ reply' = [op |-> "get_user_violations",
                         value |-> [violation_count |-> counted.value,
                                    is_rate_limited |-> limited.value]]
            /\ UNCHANGED <<message, sensitivity, results, added, now, pc, local>>

NextApi ==
    \/ \E u \in RequestUsers : detect_pii(u)
    \/ \E u \in Users : get_user_violations(u)
    \/ Tick

SpecApi == InitApi /\ [][NextApi]_vars

\* the number of blocked detect_pii requests of u less than window_minutes old
BlockedInWindow(u) ==
    Cardinality({i \in 1..Len(added[u]) : now - added[u][i] < window_minutes})

\* C26: the status endpoint sees the violations the detection endpoint recorded:
\* the answer of get_user_violations(u) has violation_count >= 1 when a blocked
\* detect_pii request carrying u was made less than window_minutes ago, and
\* is_rate_limited = TRUE after max_violations such requests.
C26_DetectVisibleToStatus ==
    \A u \in Users :
        (reply.op = "get_user_violations" /\ user_id = u) =>
            /\ BlockedInWindow(u) >= 1 => reply.value.violation_count >= 1
            /\ BlockedInWindow(u) >= max_violations => reply.value.is_rate_limited

-----------------------------------------------------------------------------
(* Severity of a single violation *)

\* the kinds the detector reports
ReportedKinds == {"phone_number"} \cup OtherKinds

\* C27: a result with exactly one violation has a severity_score of at most 40, the
\* largest weight 25 plus 15 for contact intent, whatever the kind of the violation;
\* so a severity_score of 50 or more, and of 70 or more, takes at least two
\* violations, and the engine of high sensitivity gives a single violation the
\* confidence high only with contact intent.
C27_SingleViolationBound ==
    /\ \A kind \in ReportedKinds \cup {"unlisted"} : \A has_intent \in BOOLEAN :
           _calculate_severity(<<<<kind, kind>>>>, has_intent) <= 40
    /\ \A i \in 1..Len(results) :
           LET r == results[i]
           IN  /\ Len(r.all_violations) = 1 => r.severity_score <= 40
               /\ r.severity_score >= 50 => Len(r.all_violations) >= 2
               /\ r.severity_score >= 70 => Len(r.all_violations) >= 2
    /\ Ran("high") =>
           ((Len(Result("high").all_violations) = 1 /\ Result("high").confidence = "high")
                => has_contact_intent(message))

\* a single phone number with contact intent: 25 + 15, blocked with confidence high
\* by the engine of high sensitivity
C27_Witness ==
    /\ Ran("high")
    /\ Result("high").all_violations = <<<<"phone_number", "phone_pattern">>>>
    /\ has_contact_intent(message)
    /\ Result("high").severity_score = 40
    /\ Result("high").confidence = "high"

-----------------------------------------------------------------------------
(* Sensitivity strings: the engine constructor and the settings object *)

\* the strings an engine is constructed with: __init__ stores any of them
SensitivityStrings == SensitivitySet \cup {"strict", ""}

\* the values of the environment variable PII_DEFAULT_SENSITIVITY
EnvSensitivities == {"medium", "strict"}

\* Settings(): default_sensitivity read from the environment, then __post_init__
Settings(env) ==
    [env |-> env,
     default_sensitivity |-> IF env \notin {"low", "medium", "high"} THEN "high" ELSE env]

\* the patterns that match in the messages the engines of this section moderate
PolicyPatterns == {"phone_pattern", "email_pattern", "url_pattern", "telegram_pattern"}

PolicyMessages ==
    {[text |-> <<"A">>, found |-> f, context |-> c] :
        f \in FoundUpTo(PolicyPatterns, MaxMatches), c \in {{}, {"contact_intent"}}}

\* the settings object exists, no engine yet
InitSensitivity ==
    /\ message \in PolicyMessages
    /\ local \in {Settings(env) : env \in EnvSensitivities}
    /\ sensitivity = None
    /\ user_id = None
    /\ results = <<>>
    /\ user_violations = EmptyDict
    /\ added = <<>>
    /\ now = 0
    /\ reply = NoReply
    /\ pc = <<>>

\* ContactModerationSystem(sensitivity=s).moderate_message(message)
ModerateWith(s) ==
    /\ sensitivity' = s
    /\ results' = <<moderate_message(s, message, None, EmptyDict, now).result>>
    /\ UNCHANGED <<message, user_id, user_violations, added, now, reply, pc, local>>

\* GET /api/pii/stats: the sensitivity of the default detector, which
\* _build_default_detector constructs with settings.default_sensitivity
get_stats ==
    /\ reply' = [op |-> "get_stats", value |-> local.default_sensitivity]
    /\ UNCHANGED <<message, user_id, results, sensitivity, user_violations, added, now,
                   pc, local>>

NextSensitivity ==
    \/ \E s \in SensitivityStrings : ModerateWith(s)
    \/ get_stats

SpecSensitivity == InitSensitivity /\ [][NextSensitivity]_vars

\* C28: an engine constructed with a sensitivity that is neither 'high' nor 'medium'
\* returns a result and decides by the rules of low sensitivity: blocked with
\* confidence high on contact intent with a phone_number, email_address or upi_id,
\* else blocked with confidence medium at severity 70 or more, else allowed with
\* confidence low; the settings object replaces a default sensitivity that is not
\* 'low', 'medium' or 'high' by 'high', which the default detector is built with.
C28_UnknownSensitivityIsLow ==
    /\ (results # <<>> /\ sensitivity \notin {"high", "medium"}) =>
           LET r == results[1]
               decision == <<r.is_blocked, r.confidence>>
           IN  IF /\ Kinds(r) \cap {"phone_number", "email_address", "upi_id"} # {}
                  /\ has_contact_intent(message)
               THEN decision = <<TRUE, "high">>
               ELSE IF r.severity_score >= 70
               THEN decision = <<TRUE, "medium">>
               ELSE decision = <<FALSE, "low">>
    /\ local.default_sensitivity =
           (IF local.env \in {"low", "medium", "high"} THEN local.env ELSE "high")
    /\ reply.op = "get_stats" => reply.value \in {"low", "medium", "high"}

\* an engine of sensitivity 'strict' allows a URL with contact intent, which an
\* engine of high sensitivity blocks, while the settings made 'high' of 'strict'
C28_Witness ==
    /\ sensitivity = "strict"
    /\ results # <<>>
    /\ Kinds(results[1]) = {"url"}
    /\ has_contact_intent(message)
    /\ ~results[1].is_blocked
    /\ local.env = "strict"
    /\ reply.op = "get_stats"
    /\ reply.value = "high"

-----------------------------------------------------------------------------
(* The short-circuit of the secondary phone detectors *)

\* the phone detectors under `not phone_match`
GuardedPatterns ==
    {"phone_context_pattern", "mixed_pattern", "obfuscated_number_pattern",
     "confusable_pattern", "leetspeak_number_pattern", "concat_numbers_pattern",
     "long_spelled_pattern", "leet_mixed", "zer0_pattern"}

\* the patterns of the phone detectors
PhoneDetectorPatterns == {"phone_pattern", "extension_pattern"} \cup GuardedPatterns

InitPhone ==
    /\ message \in DetectorMessages(PhoneDetectorPatterns, MaxPhones)
    /\ user_id = None
    /\ results = <<>>
    /\ sensitivity = "high"
    /\ user_violations = EmptyDict
    /\ added = <<>>
    /\ now = 0
    /\ reply = NoReply
    /\ pc = <<>>
    /\ local = <<>>

NextPhone == Detect

SpecPhone == InitPhone /\ [][NextPhone]_vars

\* the patterns of the phone_number violations of the list
PhonePatterns(violations) ==
    {violations[i][2] : i \in {j \in 1..Len(violations) : violations[j][1] = "phone_number"}}

\* C29: when the primary phone pattern matches the normalized text, no phone
\* detector guarded by `not phone_match` reports, whether or not the primary match is
\* reported itself: the phone_number violations of the list come from the primary
\* and the extension detector only, and with the primary match suppressed as a false
\* positive from the extension detector only.
C29_ShortCircuitOnMatch ==
    (results # <<>> /\ "phone_pattern" \in DOMAIN message.found) =>
        /\ PhonePatterns(results[1]) \cap GuardedPatterns = {}
        /\ PhonePatterns(results[1]) \subseteq {"phone_pattern", "extension_pattern"}
        /\ (FalsePositive("phone_pattern") /\ "phone_pattern" \notin PhonePatterns(results[1]))
               => PhonePatterns(results[1]) \subseteq {"extension_pattern"}

\* seven digits in a safe context beside a mixed run of digits and number words and
\* an extension, in a text with a contact sharing phrase: the primary match is
\* suppressed, the mixed detector, which would report its match on the sharing
\* phrase, does not run, and the extension is the only phone_number of the list
C29_Witness ==
    /\ results # <<>>
    /\ DOMAIN message.found = {"phone_pattern", "mixed_pattern", "extension_pattern"}
    /\ message.found["phone_pattern"] = 7
    /\ {"sharing_phrase", "safe_context"} \subseteq message.context
    /\ "exclude_phrase" \notin message.context
    /\ NumberViolation(message, "mixed_pattern") # <<>>
    /\ results[1] = <<<<"phone_number", "extension_pattern">>>>

-----------------------------------------------------------------------------
(* The two intent predicates *)

\* the severity of the violations without and with the 15 of contact intent
Scored(violations, bonus) ==
    LET sum == TableSum(violations) + 10 * (Len(violations) - 1) + bonus
    IN  IF sum < 100 THEN sum ELSE 100

\* C30: the contact intent that counts for the severity and for the decision is the
\* one of ContextAnalyzer alone.  An exclusion phrase of the detector does not clear
\* it: a result with violations for a text with an analyzer intent phrase and an
\* exclusion phrase has the 15 of intent in its severity, confidence high from the
\* engine of high sensitivity, and is blocked by the engine of low sensitivity when a
\* phone_number, email_address or upi_id is among the violations.  A sharing phrase
\* of the detector does not set it: without an analyzer intent phrase the severity
\* has no 15 of intent, also when the sharing phrase let a false positive through.
C30_AnalyzerIntentOnly ==
    \A i \in 1..Len(results) :
        LET r == results[i]
        IN  r.all_violations # <<>> =>
                /\ ("contact_intent" \in message.context
                       /\ "exclude_phrase" \in message.context) =>
                       /\ r.severity_score = Scored(r.all_violations, 15)
                       /\ Sensitivities[i] = "high" => r.confidence = "high"
                       /\ (Sensitivities[i] = "low"
                              /\ Kinds(r) \cap {"phone_number", "email_address",
                                                "upi_id"} # {}) =>
                              (r.is_blocked /\ r.confidence = "high")
                /\ ("sharing_phrase" \in message.context
                       /\ "contact_intent" \notin message.context) =>
                       /\ r.severity_score = Scored(r.all_violations, 0)
                       /\ (Sensitivities[i] = "low" /\ r.severity_score < 70) =>
                              ~r.is_blocked

\* a ten-digit number in a safe context and a URL, in a text with an analyzer intent
\* phrase, a sharing phrase and an exclusion phrase: the exclusion phrase disables
\* the bypass, so the number is suppressed, and the URL still scores 15 + 15 and is
\* blocked with confidence high by the engine of high sensitivity
C30_Witness ==
    /\ Ran("high")
    /\ DOMAIN message.found = {"phone_pattern", "url_pattern"}
    /\ message.found["phone_pattern"] = 10
    /\ message.context = {"contact_intent", "sharing_phrase", "exclude_phrase",
                          "safe_context"}
    /\ ~_has_contact_sharing_intent(message)
    /\ Result("high").all_violations = <<<<"url", "url_pattern">>>>
    /\ Result("high").severity_score = 30
    /\ Result("high").confidence = "high"

====
